---------------------------- MODULE Spec2Model ----------------------------
(***************************************************************************)
(* A model of the moderation bot (src/bot): the state store                *)
(* (data_store.ModerationStore), the sliding-window flood limiter, the     *)
(* per-admin-chat session machine and the moderation / escalation pipeline *)
(* (moderation_bot.ModerationBot).                                         *)
(*                                                                         *)
(* Texts are sequences of one-character strings, so that strip, casefold,  *)
(* split(","), shlex.split, int() and len() are computed, not assumed.     *)
(* Cyrillic button labels are written in Latin transliteration.            *)
(*                                                                         *)
(* The handler specifications run one update at a time.  The intake loop,  *)
(* the worker pool and stop() are modelled by the polling thread, the      *)
(* workers and the thread that calls stop(), one step per action; the race *)
(* specifications run two workers through one handler each, one store or   *)
(* session call per step.  The storage specification follows _persist     *)
(* through its temporary file, with crashes and restarts of the process.   *)
(***************************************************************************)
EXTENDS Integers, Sequences, FiniteSets, TLC

VARIABLES
    _data,          \* ModerationStore._data: moderated_chats, global_keywords
    disk,           \* the snapshot at ModerationStore._path (last _persist)
    _admin_sessions,\* ModerationBot._admin_sessions: chat id -> {state, data}
    _admin_menu_message, \* ModerationBot._admin_menu_message (chats with a stored id)
    _rate_buckets,  \* ModerationBot._rate_buckets: chat -> user -> timestamps
    now,            \* the last value time.time() returned
    calls,          \* outbound platform calls of the last handled update, in order
    last,           \* the last handled update or store call, and what it returned
    _offset,        \* ModerationBot._offset: the poll cursor, None before the first update
    _stop_event,    \* ModerationBot._stop_event is set
    _executor,      \* the pool: its work queue and its shutdown flag
    workers,        \* what each worker thread of the pool is doing
    polling,        \* the polling thread: where it is in _poll_updates, and its locals
    main,           \* the thread that starts and stops the bot
    hist,           \* history of the threads, kept for the claims
    files           \* the storage directory: the file at _path and the .tmp file

vars == <<_data, disk, _admin_sessions, _admin_menu_message, _rate_buckets, now, calls, last,
          _offset, _stop_event, _executor, workers, polling, main, hist, files>>

\* what a handler run on its own leaves alone: the threads and the files
threadVars == <<_offset, _stop_event, _executor, workers, polling, main, hist, files>>

----------------------------------------------------------------------------
(* Optional values: None is the empty tuple, a present value x is <<x>>.   *)
None == <<>>
Some(x) == <<x>>

(* Dictionaries are functions whose domain is the set of keys.             *)
DictPop(d, k) == [x \in (DOMAIN d) \ {k} |-> d[x]]
DictSet(d, k, v) == [x \in (DOMAIN d) \cup {k} |-> IF x = k THEN v ELSE d[x]]

----------------------------------------------------------------------------
(* Text primitives of the Python standard library the code relies on.      *)

\* str.casefold / str.lower on one character
FoldChar(c) ==
    CASE c = "A" -> "a"
      [] c = "C" -> "c"
      [] c = "D" -> "d"
      [] c = "M" -> "m"
      [] c = "N" -> "n"
      [] c = "P" -> "p"
      [] c = "S" -> "s"
      [] c = "T" -> "t"
      [] c = "U" -> "u"
      [] OTHER -> c

\* str.casefold
CaseFold(s) == [i \in 1..Len(s) |-> FoldChar(s[i])]

IsSpace(c) == c = " "

RECURSIVE LStrip(_)
LStrip(s) == IF s # <<>> /\ IsSpace(Head(s)) THEN LStrip(Tail(s)) ELSE s

RECURSIVE RStrip(_)
RStrip(s) ==
    IF s # <<>> /\ IsSpace(s[Len(s)]) THEN RStrip(SubSeq(s, 1, Len(s) - 1)) ELSE s

\* str.strip
Strip(s) == RStrip(LStrip(s))

\* str.split(sep) for a one-character separator: always at least one part
RECURSIVE SplitOn(_, _, _, _)
SplitOn(s, sep, cur, acc) ==
    IF s = <<>> THEN Append(acc, cur)
    ELSE IF Head(s) = sep THEN SplitOn(Tail(s), sep, <<>>, Append(acc, cur))
    ELSE SplitOn(Tail(s), sep, Append(cur, Head(s)), acc)

Split(s, sep) == SplitOn(s, sep, <<>>, <<>>)

\* sep.join(parts)
RECURSIVE Join(_, _)
Join(parts, sep) ==
    IF parts = <<>> THEN <<>>
    ELSE IF Len(parts) = 1 THEN parts[1]
    ELSE parts[1] \o sep \o Join(Tail(parts), sep)

NonEmpty(s) == s # <<>>

\* [w.strip() for w in ws if w and w.strip()]
StripAll(ws) == SelectSeq([i \in 1..Len(ws) |-> Strip(ws[i])], NonEmpty)

\* {w.casefold() for w in ws}
FoldSet(ws) == {CaseFold(ws[i]) : i \in 1..Len(ws)}

\* needle in hay (substring test)
Contains(hay, needle) ==
    \E i \in 0..(Len(hay) - Len(needle)) :
        \A j \in 1..Len(needle) : hay[i + j] = needle[j]

----------------------------------------------------------------------------
(* data_store.ModerationStore.  Every operation is an operator from the    *)
(* in-memory document to [data, ret, persisted]: the document afterwards,  *)
(* the value returned, and whether _persist() ran.  Chat and user keys are *)
(* str(int) in the code, which is one-to-one on integers: the model keys   *)
(* by the integer.                                                         *)

\* ModerationStore.__init__: the default document (no file at the path)
DefaultData == [moderated_chats |-> <<>>, global_keywords |-> <<>>]

\* the entry chats.setdefault(key, {...}) creates
NewChatEntry == [title |-> <<>>, keywords |-> <<>>, warnings |-> <<>>]

StoreRes(d, r, p) == [data |-> d, ret |-> r, persisted |-> p]

\* _get_chat_entry(chat_id, create=True), as the document it leaves behind
_get_chat_entry_create(d, chat_id) ==
    IF chat_id \in DOMAIN d.moderated_chats THEN d
    ELSE [d EXCEPT !.moderated_chats = DictSet(@, chat_id, NewChatEntry)]

add_chat(d, chat_id, title) ==
    LET exists == chat_id \in DOMAIN d.moderated_chats
        d1 == _get_chat_entry_create(d, chat_id)
        d2 == IF title # None
              THEN [d1 EXCEPT !.moderated_chats[chat_id].title = title[1]]
              ELSE d1
    IN StoreRes(d2, ~exists, TRUE)

update_chat_title(d, chat_id, title) ==
    LET d1 == _get_chat_entry_create(d, chat_id)
    IN StoreRes([d1 EXCEPT !.moderated_chats[chat_id].title = title], TRUE, TRUE)

\* remove_chat that empties the entry's title and leaves the entry in place
remove_chat_keep(d, chat_id) ==
    LET removed == chat_id \in DOMAIN d.moderated_chats
    IN IF removed
       THEN StoreRes([d EXCEPT !.moderated_chats[chat_id].title = <<>>], TRUE, TRUE)
       ELSE StoreRes(d, FALSE, FALSE)

remove_chat(d, chat_id) ==
    LET removed == chat_id \in DOMAIN d.moderated_chats
    IN IF removed
       THEN StoreRes([d EXCEPT !.moderated_chats = DictPop(@, chat_id)], TRUE, TRUE)
       ELSE StoreRes(d, FALSE, FALSE)

\* the mapping list_chats returns (title and warnings of every chat)
list_chats(d) ==
    [c \in DOMAIN d.moderated_chats |->
        [title |-> d.moderated_chats[c].title,
         keywords |-> d.global_keywords,
         warnings |-> d.moderated_chats[c].warnings]]

add_keywords(d, words) ==
    LET cleaned == StripAll(words)
        current == d.global_keywords
        existing_cf == FoldSet(current)
        IsNew(w) == CaseFold(w) \notin existing_cf
        added == SelectSeq(cleaned, IsNew)
    IN IF cleaned = <<>> \/ added = <<>>
       THEN StoreRes(d, 0, FALSE)
       ELSE StoreRes([d EXCEPT !.global_keywords = current \o added], Len(added), TRUE)

\* remove_keywords that compares spellings without case-folding
remove_keywords_exact(d, words) ==
    LET targets == StripAll(words)
        current == d.global_keywords
        Stays(w) == \A i \in 1..Len(targets) : targets[i] # w
        kept == SelectSeq(current, Stays)
        removed == Len(current) - Len(kept)
    IN IF targets = <<>> \/ removed = 0
       THEN StoreRes(d, 0, FALSE)
       ELSE StoreRes([d EXCEPT !.global_keywords = kept], removed, TRUE)

remove_keywords(d, words) ==
    LET targets == StripAll(words)
        current == d.global_keywords
        to_remove_cf == FoldSet(targets)
        Stays(w) == CaseFold(w) \notin to_remove_cf
        kept == SelectSeq(current, Stays)
        removed == Len(current) - Len(kept)
    IN IF targets = <<>> \/ removed = 0
       THEN StoreRes(d, 0, FALSE)
       ELSE StoreRes([d EXCEPT !.global_keywords = kept], removed, TRUE)

get_keywords(d) == d.global_keywords

list_global_keywords(d) == d.global_keywords

is_chat_moderated(d, chat_id) == chat_id \in DOMAIN d.moderated_chats

get_warning(d, chat_id, user_id) ==
    IF chat_id \notin DOMAIN d.moderated_chats THEN 0
    ELSE IF user_id \in DOMAIN d.moderated_chats[chat_id].warnings
         THEN d.moderated_chats[chat_id].warnings[user_id]
         ELSE 0

get_all_warnings(d, chat_id) ==
    IF chat_id \notin DOMAIN d.moderated_chats THEN <<>>
    ELSE d.moderated_chats[chat_id].warnings

\* increment_warning that marks the user as warned and counts no further
increment_warning_once(d, chat_id, user_id) ==
    LET d1 == _get_chat_entry_create(d, chat_id)
    IN StoreRes([d1 EXCEPT !.moderated_chats[chat_id].warnings = DictSet(@, user_id, 1)],
                1, TRUE)

increment_warning(d, chat_id, user_id) ==
    LET d1 == _get_chat_entry_create(d, chat_id)
        n == get_warning(d1, chat_id, user_id) + 1
    IN StoreRes([d1 EXCEPT !.moderated_chats[chat_id].warnings = DictSet(@, user_id, n)],
                n, TRUE)

reset_warnings(d, chat_id, user_id) ==
    IF chat_id \notin DOMAIN d.moderated_chats THEN StoreRes(d, FALSE, FALSE)
    ELSE IF user_id \notin DOMAIN d.moderated_chats[chat_id].warnings
         THEN StoreRes(d, FALSE, FALSE)
         ELSE StoreRes([d EXCEPT !.moderated_chats[chat_id].warnings = DictPop(@, user_id)],
                       TRUE, TRUE)

\* an operation that returns without its _persist call
Persisted_lost(r, dsk) == dsk

\* _persist after an operation: the file holds the document the operation left
Persisted(r, dsk) == IF r.persisted THEN r.data ELSE dsk

----------------------------------------------------------------------------
(* ModerationBot.__init__: button labels (transliterated), request ids and *)
(* the slash commands of _handle_admin_message.                            *)

\* Menu
BTN_MENU == <<"M", "e", "n", "u">>
\* Chaty
BTN_GROUP_CHATS == <<"C", "h", "a", "t", "y">>
\* Slova
BTN_GROUP_WORDS == <<"S", "l", "o", "v", "a">>
\* < Nazad
BTN_BACK == <<"<", " ", "N", "a", "z", "a", "d">>
\* Moderiruemye chaty
BTN_LIST_CHATS == <<"M", "o", "d", "e", "r", "i", "r", "u", "e", "m", "y", "e", " ", "c", "h", "a", "t", "y">>
\* Dobavit chat
BTN_ADD_CHAT == <<"D", "o", "b", "a", "v", "i", "t", " ", "c", "h", "a", "t">>
\* Udalit chat
BTN_REMOVE_CHAT == <<"U", "d", "a", "l", "i", "t", " ", "c", "h", "a", "t">>
\* Dobavit slovo
BTN_ADD_WORD == <<"D", "o", "b", "a", "v", "i", "t", " ", "s", "l", "o", "v", "o">>
\* Udalit slovo
BTN_REMOVE_WORD == <<"U", "d", "a", "l", "i", "t", " ", "s", "l", "o", "v", "o">>
\* Spisok slov
BTN_LIST_WORDS == <<"S", "p", "i", "s", "o", "k", " ", "s", "l", "o", "v">>
\* Preduprezhdeniya
BTN_WARNINGS == <<"P", "r", "e", "d", "u", "p", "r", "e", "z", "h", "d", "e", "n", "i", "y", "a">>
\* Sbros preduprezhdeniy
BTN_RESET_WARNING == <<"S", "b", "r", "o", "s", " ", "p", "r", "e", "d", "u", "p", "r", "e", "z", "h", "d", "e", "n", "i", "y">>
\* Pomosch
BTN_HELP == <<"P", "o", "m", "o", "s", "c", "h">>

REQ_ADD_CHAT == 101
REQ_REMOVE_CHAT == 102

CMD_START == <<"/", "s", "t", "a", "r", "t">>
CMD_HELP == <<"/", "h", "e", "l", "p">>
CMD_ADD_CHAT == <<"/", "a", "d", "d", "_", "c", "h", "a", "t">>
CMD_REMOVE_CHAT == <<"/", "r", "e", "m", "o", "v", "e", "_", "c", "h", "a", "t">>
CMD_LIST_CHATS == <<"/", "l", "i", "s", "t", "_", "c", "h", "a", "t", "s">>
CMD_ADD_KEYWORD == <<"/", "a", "d", "d", "_", "k", "e", "y", "w", "o", "r", "d">>
CMD_REMOVE_KEYWORD == <<"/", "r", "e", "m", "o", "v", "e", "_", "k", "e", "y", "w", "o", "r", "d">>
CMD_LIST_KEYWORDS == <<"/", "l", "i", "s", "t", "_", "k", "e", "y", "w", "o", "r", "d", "s">>
CMD_WARNINGS == <<"/", "w", "a", "r", "n", "i", "n", "g", "s">>
CMD_RESET_WARNING == <<"/", "r", "e", "s", "e", "t", "_", "w", "a", "r", "n", "i", "n", "g">>


----------------------------------------------------------------------------
(* Bounds of the model and the input alphabets drawn from them.            *)

\* cap on a warning counter (the code has none)
MaxWarnings == 3
\* cap on the length of the keyword list in the bot specifications
MaxKeywords == 1
\* longest batch handed to add_keywords / remove_keywords directly
MaxBatch == 2
\* config.worker_pool_size (4 by default): the model's pool has fewer workers
worker_pool_size == 2
\* update ids getUpdates hands out
MaxUpdateId == 3
\* fetches that return updates, and the longest batch one returns
MaxFetches == 2
MaxFetchLen == 2

\* chat identifiers: 1 and 2 are group chats, 9 is the configured admin chat
GroupChats == {1, 2}
UserIds == {1, 2}

Spam == <<"S", "p", "a", "m">>
spam == <<"s", "p", "a", "m">>
Ads == <<"A", "d", "s">>
\* words a caller may hand to the store: two spellings of one word, a second
\* word, a padded spelling, and the empty string
WordPool == {Spam, spam, Ads, <<" ">> \o spam \o <<" ">>, <<>>}

RECURSIVE SeqsUpTo(_, _)
SeqsUpTo(S, n) ==
    IF n = 0 THEN {<<>>}
    ELSE LET shorter == SeqsUpTo(S, n - 1)
         IN shorter \cup {Append(q, x) : q \in shorter, x \in S}

Batches == SeqsUpTo(WordPool, MaxBatch)

TitleT == <<"T">>

----------------------------------------------------------------------------
(* What the last step was: the handler or store call, its arguments and    *)
(* what it returned.  Fields a step does not use keep their default.  For  *)
(* remove_chat retn is the number of counters the chat held; aged is the   *)
(* number of timestamps the flood check dropped from the window; req is    *)
(* the request id of a shared chat; upd is the update a handler was given. *)
NoLast ==
    [op |-> "init", chat |-> 0, user |-> 0, arg |-> <<>>, path |-> "", state |-> "",
     retb |-> FALSE, retn |-> 0, raised |-> FALSE, aged |-> 0, req |-> 0, upd |-> <<>>]

\* a file that does not exist
Absent == [state |-> "absent", members |-> <<>>]

\* the storage directory before the first _persist
NoFiles == [path |-> Absent, tmp |-> Absent]

\* a worker thread waiting on the work queue
Idle == [pc |-> "idle", task |-> None, loc |-> None]

\* what hist records: the update ids fetches returned and submit accepted, in
\* order; how many handlers started, finished and were cancelled in the
\* queue; the ids the loop moved the cursor past; the chats an admin removed
\* and did not add again; how many messages were read under the session that
\* is pending; the cursor value of the fetch that failed last, -1 when the
\* last fetch did not fail; how many messages the flood check let pass, for
\* each <<chat, user, the time the handler read>>; the counts increment_warning
\* returned since the counter was last reset; how many buttons, commands and
\* callbacks of the admin's round have been used
NoHist ==
    [fetched |-> <<>>, submitted |-> <<>>, started |-> 0, finished |-> 0, cancelled |-> 0,
     fetches |-> 0, seen |-> {}, removed |-> {}, consumed |-> 0, failed |-> -1,
     accepted |-> <<>>, counts |-> <<>>, tried |-> 0]

Init ==
    /\ _data = DefaultData
    /\ disk = DefaultData
    /\ _admin_sessions = <<>>
    /\ _admin_menu_message = {}
    /\ _rate_buckets = <<>>
    /\ now = 0
    /\ calls = <<>>
    /\ last = NoLast
    /\ _offset = None
    /\ _stop_event = FALSE
    /\ _executor = [queue |-> <<>>, shutdown |-> FALSE]
    /\ workers = [wk \in 1..worker_pool_size |-> Idle]
    /\ polling = [pc |-> "new", updates |-> <<>>, i |-> 0, offset |-> None]
    /\ main = "new"
    /\ hist = NoHist
    /\ files = NoFiles

botVars == <<_admin_sessions, _admin_menu_message, _rate_buckets, now, calls>>

----------------------------------------------------------------------------
(* The store driven directly through its public methods, by any caller.    *)

StoreCall(r, l) ==
    /\ _data' = r.data
    /\ disk' = Persisted(r, disk)
    /\ last' = l
    /\ UNCHANGED botVars
    /\ UNCHANGED threadVars

StoreAddChat(c, title) ==
    LET r == add_chat(_data, c, title)
    IN StoreCall(r, [NoLast EXCEPT !.op = "add_chat", !.chat = c, !.arg = title,
                                   !.retb = r.ret])

StoreUpdateChatTitle(c, title) ==
    StoreCall(update_chat_title(_data, c, title),
              [NoLast EXCEPT !.op = "update_chat_title", !.chat = c, !.arg = title])

StoreRemoveChat(c) ==
    LET r == remove_chat(_data, c)
    IN StoreCall(r, [NoLast EXCEPT !.op = "remove_chat", !.chat = c, !.retb = r.ret,
                                   !.retn = Cardinality(DOMAIN get_all_warnings(_data, c))])

StoreAddKeywords(words) ==
    LET r == add_keywords(_data, words)
    IN StoreCall(r, [NoLast EXCEPT !.op = "add_keywords", !.arg = words, !.retn = r.ret])

StoreRemoveKeywords(words) ==
    LET r == remove_keywords(_data, words)
    IN StoreCall(r, [NoLast EXCEPT !.op = "remove_keywords", !.arg = words,
                                   !.retn = r.ret])

StoreIncrementWarning(c, u) ==
    /\ get_warning(_data, c, u) < MaxWarnings
    /\ LET r == increment_warning(_data, c, u)
       IN StoreCall(r, [NoLast EXCEPT !.op = "increment_warning", !.chat = c,
                                      !.user = u, !.retn = r.ret])

StoreResetWarnings(c, u) ==
    LET r == reset_warnings(_data, c, u)
    IN StoreCall(r, [NoLast EXCEPT !.op = "reset_warnings", !.chat = c, !.user = u,
                                   !.retb = r.ret])

\* the keyword list driven directly, with arbitrary batches
KeywordsNext ==
    \/ \E ws \in Batches : StoreAddKeywords(ws)
    \/ \E ws \in Batches : StoreRemoveKeywords(ws)

SpecKeywords == Init /\ [][KeywordsNext]_vars

\* the chats and their warning counters driven directly
ChatsNext ==
    \/ \E c \in GroupChats, t \in {None, Some(TitleT)} : StoreAddChat(c, t)
    \/ \E c \in GroupChats : StoreUpdateChatTitle(c, TitleT)
    \/ \E c \in GroupChats : StoreRemoveChat(c)
    \/ \E c \in GroupChats, u \in UserIds : StoreIncrementWarning(c, u)
    \/ \E c \in GroupChats, u \in UserIds : StoreResetWarnings(c, u)

SpecChats == Init /\ [][ChatsNext]_vars

----------------------------------------------------------------------------
(* Parsing helpers of ModerationBot.                                       *)

\* str.lower (the same map as casefold on the model's alphabet)
Lower(s) == [i \in 1..Len(s) |-> FoldChar(s[i])]

\* shlex.split(text): whitespace separates tokens, '...' quotes; an unclosed
\* quote raises ValueError (ok = FALSE).  has: a token is in progress.
RECURSIVE ShlexScan(_, _, _, _, _)
ShlexScan(s, cur, has, inq, acc) ==
    IF s = <<>>
    THEN IF inq THEN [ok |-> FALSE, tokens |-> <<>>]
         ELSE [ok |-> TRUE, tokens |-> IF has THEN Append(acc, cur) ELSE acc]
    ELSE LET c == Head(s)
             r == Tail(s)
         IN IF inq
            THEN IF c = "'" THEN ShlexScan(r, cur, TRUE, FALSE, acc)
                 ELSE ShlexScan(r, Append(cur, c), TRUE, TRUE, acc)
            ELSE IF c = "'" THEN ShlexScan(r, cur, TRUE, TRUE, acc)
            ELSE IF IsSpace(c)
                 THEN IF has THEN ShlexScan(r, <<>>, FALSE, FALSE, Append(acc, cur))
                      ELSE ShlexScan(r, <<>>, FALSE, FALSE, acc)
            ELSE ShlexScan(r, Append(cur, c), TRUE, FALSE, acc)

ShlexSplit(text) == ShlexScan(text, <<>>, FALSE, FALSE, <<>>)

Digits == {"0", "1", "2", "3", "4", "5", "6", "7", "8", "9"}

DigitVal(c) ==
    CASE c = "0" -> 0 [] c = "1" -> 1 [] c = "2" -> 2 [] c = "3" -> 3
      [] c = "4" -> 4 [] c = "5" -> 5 [] c = "6" -> 6 [] c = "7" -> 7
      [] c = "8" -> 8 [] c = "9" -> 9

RECURSIVE DecimalVal(_, _)
DecimalVal(s, acc) ==
    IF s = <<>> THEN acc ELSE DecimalVal(Tail(s), 10 * acc + DigitVal(Head(s)))

\* _parse_int(raw, field): int(raw), or ValueError (ok = FALSE).  A sign and
\* decimal digits; the inputs of the model hold no other spelling int() takes.
_parse_int(raw) ==
    LET signed == raw # <<>> /\ Head(raw) \in {"-", "+"}
        body == IF signed THEN Tail(raw) ELSE raw
        ok == body # <<>> /\ \A i \in 1..Len(body) : body[i] \in Digits
    IN IF ~ok THEN [ok |-> FALSE, val |-> 0]
       ELSE [ok |-> TRUE,
             val |-> IF signed /\ Head(raw) = "-"
                     THEN 0 - DecimalVal(body, 0) ELSE DecimalVal(body, 0)]

\* the loop of _parse_words_csv: keep the first spelling of every fold class
RECURSIVE DedupFold(_, _, _)
DedupFold(parts, seen, result) ==
    IF parts = <<>> THEN result
    ELSE LET key == CaseFold(Head(parts))
         IN IF key \in seen THEN DedupFold(Tail(parts), seen, result)
            ELSE DedupFold(Tail(parts), seen \cup {key}, Append(result, Head(parts)))

_parse_words_csv(raw) == DedupFold(StripAll(Split(raw, ",")), {}, <<>>)

\* ModerationBot._extract_text: text, else caption, else None (here: <<>>)
_extract_text(message) == message.text

----------------------------------------------------------------------------
(* The bot's configuration (config.BotConfig) and the platform.            *)

\* BotConfig.admin_chat_ids / admin_user_ids of the modelled deployment
admin_chat_ids == {9}
admin_user_ids == {5}
\* BotConfig.warning_limit (default)
warning_limit == 3
\* ModerationBot.MAX_MESSAGE_LENGTH
MAX_MESSAGE_LENGTH == 100

\* the users get_chat_administrators reports for a group: user 2 is an admin
ChatAdministrators(chat_id) == {2}

(* A handler works on a record w of the bot's state -- data, disk,         *)
(* sessions, menu, rate, now, calls -- plus what it reports about itself   *)
(* (path, state, retb, retn).  The platform's answers are the record e:    *)
(* e.fail, the API methods that raise TelegramAPIError during this update, *)
(* e.title, the title get_chat reports (None: no title), and e.t, the      *)
(* value of time.time().                                                   *)

ApiCall(method, chat, what, body, e) ==
    [m |-> method, chat |-> chat, what |-> what, body |-> body,
     ok |-> method \notin e.fail]

Say(w, c) == [w EXCEPT !.calls = Append(@, c)]

ApplyStore(w, r) == [w EXCEPT !.data = r.data, !.disk = Persisted(r, @)]

Done(w, path) == [w EXCEPT !.path = path]

\* ModerationBot._send_to_chat: a failure is logged and swallowed
_send_to_chat(w, e, chat_id, what, body) ==
    Say(w, ApiCall("send_message", chat_id, what, body, e))

\* _send_ephemeral that sends nothing
_send_ephemeral_mute(w, e, chat_id, what, body) == w

\* ModerationBot._send_ephemeral: the notice (its deletion timer is not modelled)
_send_ephemeral(w, e, chat_id, what, body) ==
    Say(w, ApiCall("send_message", chat_id, what, body, e))

\* the order _cmd_list_chats walks chats.items() in: the dict keeps insertion
\* order, the model keeps none and walks the ids ascending (the order shows only
\* in the order of the lines of the listing)
RECURSIVE SortedSeq(_)
SortedSeq(S) ==
    IF S = {} THEN <<>>
    ELSE LET lo == CHOOSE x \in S : \A y \in S : x <= y
         IN <<lo>> \o SortedSeq(S \ {lo})

\* ModerationBot._notify_admins: one send per configured admin chat
RECURSIVE NotifyEach(_, _, _, _)
NotifyEach(w, e, chats, what) ==
    IF chats = <<>> THEN w
    ELSE NotifyEach(Say(w, ApiCall("send_message", Head(chats), what, <<>>, e)),
                    e, Tail(chats), what)

_notify_admins(w, e, what) == NotifyEach(w, e, SortedSeq(admin_chat_ids), what)

----------------------------------------------------------------------------
(* Admin session helpers.                                                  *)

_set_session(w, chat_id, state) ==
    [w EXCEPT !.sessions = DictSet(@, chat_id, [state |-> state, data |-> None])]

\* _get_session that finds no session
_get_session_none(w, chat_id) == ""

\* the state tag, or "" for None
_get_session(w, chat_id) ==
    IF chat_id \in DOMAIN w.sessions THEN w.sessions[chat_id].state ELSE ""

\* _clear_session that empties the whole dictionary
_clear_session_all(w, chat_id) == [w EXCEPT !.sessions = <<>>]

\* self._admin_sessions.pop(chat_id, None)
_clear_session(w, chat_id) == [w EXCEPT !.sessions = DictPop(@, chat_id)]

\* the labels _maybe_delete_ui_echo deletes the echo of
UiEchoLabels ==
    {BTN_GROUP_CHATS, BTN_LIST_CHATS, BTN_ADD_CHAT, BTN_REMOVE_CHAT, BTN_GROUP_WORDS,
     BTN_ADD_WORD, BTN_REMOVE_WORD, BTN_LIST_WORDS, BTN_WARNINGS, BTN_RESET_WARNING,
     BTN_HELP, BTN_MENU}

_maybe_delete_ui_echo(w, e, chat_id, message_id, text) ==
    IF message_id # None /\ text \in UiEchoLabels
    THEN Say(w, ApiCall("delete_message", chat_id, "ui_echo", <<>>, e))
    ELSE w

_show_root_menu(w, e, chat_id) == _send_to_chat(w, e, chat_id, "root_menu", <<>>)
_show_chats_menu(w, e, chat_id) == _send_to_chat(w, e, chat_id, "chats_menu", <<>>)
_show_words_menu(w, e, chat_id) == _send_to_chat(w, e, chat_id, "words_menu", <<>>)

_show_global_keywords(w, e, chat_id) ==
    LET keywords == list_global_keywords(w.data)
    IN IF keywords = <<>> THEN _send_to_chat(w, e, chat_id, "no_keywords", <<>>)
       ELSE _send_to_chat(w, e, chat_id, "list_keywords", keywords)

\* ModerationBot._upsert_menu: edit the stored menu message, else send a new one
_upsert_menu(w, e, chat_id, what) ==
    LET edited == Say(w, ApiCall("edit_message_text", chat_id, what, <<>>, e))
        w1 == IF chat_id \in w.menu THEN edited ELSE w
    IN IF chat_id \in w.menu /\ "edit_message_text" \notin e.fail THEN w1
       ELSE LET w2 == Say(w1, ApiCall("send_message", chat_id, what, <<>>, e))
            IN IF "send_message" \notin e.fail
               THEN [w2 EXCEPT !.menu = @ \cup {chat_id}]
               ELSE w2

\* ModerationBot._resolve_chat_title_username, for every listed chat in turn:
\* the title shown, refreshed in the store when get_chat reports another one
RECURSIVE ResolveTitles(_, _, _, _)
ResolveTitles(w, e, ids, lines) ==
    IF ids = <<>> THEN [w |-> w, lines |-> lines]
    ELSE LET c == Head(ids)
             cached == w.data.moderated_chats[c].title
             w1 == Say(w, ApiCall("get_chat", c, "", <<>>, e))
             failed == "get_chat" \in e.fail
             title == IF failed THEN cached
                      ELSE IF e.title # None /\ e.title[1] # <<>> THEN e.title[1]
                      ELSE cached
             w2 == IF ~failed /\ title # <<>> /\ title # cached
                   THEN ApplyStore(w1, update_chat_title(w1.data, c, title))
                   ELSE w1
         IN ResolveTitles(w2, e, Tail(ids), Append(lines, title))

----------------------------------------------------------------------------
(* Slash commands, the _cmd_ methods.  Each yields [w, err]: err is a      *)
(* raised ValueError, which _handle_admin_message reports to the admin.    *)

Ok(w) == [w |-> w, err |-> FALSE]
Raise(w) == [w |-> w, err |-> TRUE]

_cmd_help(w, e, chat_id, args) == Ok(_send_to_chat(w, e, chat_id, "help", <<>>))

\* " ".join(tokens) when there are any, else None
JoinedOrNone(tokens) == IF tokens = <<>> THEN None ELSE Some(Join(tokens, <<" ">>))

_cmd_add_chat(w, e, chat_id, args) ==
    IF args = <<>> THEN Raise(w)
    ELSE LET target == _parse_int(args[1])
             r == add_chat(w.data, target.val, JoinedOrNone(Tail(args)))
         IN IF ~target.ok THEN Raise(w)
            ELSE Ok(_send_to_chat(ApplyStore(w, r), e, chat_id,
                                  IF r.ret THEN "chat_added" ELSE "chat_exists", target.val))

_cmd_remove_chat(w, e, chat_id, args) ==
    IF args = <<>> THEN Raise(w)
    ELSE LET target == _parse_int(args[1])
             r == remove_chat(w.data, target.val)
         IN IF ~target.ok THEN Raise(w)
            ELSE Ok(_send_to_chat(ApplyStore(w, r), e, chat_id,
                                  IF r.ret THEN "chat_removed" ELSE "chat_not_found",
                                  target.val))

_cmd_list_chats(w, e, chat_id, args) ==
    LET chats == list_chats(w.data)
        res == ResolveTitles(w, e, SortedSeq(DOMAIN chats), <<>>)
    IN IF DOMAIN chats = {} THEN Ok(_send_to_chat(w, e, chat_id, "no_chats", <<>>))
       ELSE Ok(_send_to_chat(res.w, e, chat_id, "list_chats", res.lines))

_cmd_add_keyword(w, e, chat_id, args) ==
    IF args = <<>> THEN Raise(w)
    ELSE LET r == add_keywords(w.data, _parse_words_csv(Join(args, <<" ">>)))
         IN Ok(_send_to_chat(ApplyStore(w, r), e, chat_id,
                             IF r.ret > 0 THEN "kw_added" ELSE "kw_none_new", r.ret))

_cmd_remove_keyword(w, e, chat_id, args) ==
    IF args = <<>> THEN Raise(w)
    ELSE LET r == remove_keywords(w.data, _parse_words_csv(Join(args, <<" ">>)))
         IN Ok(_send_to_chat(ApplyStore(w, r), e, chat_id,
                             IF r.ret > 0 THEN "kw_removed" ELSE "kw_no_match", r.ret))

_cmd_list_keywords(w, e, chat_id, args) == Ok(_show_global_keywords(w, e, chat_id))

\* the warnings report shared by _cmd_warnings and the AWAIT_WARNINGS step
WarningsReport(w, e, chat_id, tokens) ==
    IF tokens = <<>> THEN Raise(w)
    ELSE LET target == _parse_int(tokens[1])
             user == _parse_int(tokens[2])
             all == get_all_warnings(w.data, target.val)
         IN IF ~target.ok THEN Raise(w)
            ELSE IF Len(tokens) = 1
                 THEN Ok(_send_to_chat(w, e, chat_id,
                                       IF DOMAIN all = {} THEN "warnings_none"
                                       ELSE "warnings_list", all))
            ELSE IF ~user.ok THEN Raise(w)
            ELSE Ok(_send_to_chat(w, e, chat_id, "warning_count",
                                  get_warning(w.data, target.val, user.val)))

_cmd_warnings(w, e, chat_id, args) == WarningsReport(w, e, chat_id, args)

\* the reset shared by _cmd_reset_warning and the AWAIT_RESET_WARNING step
WarningReset(w, e, chat_id, tokens) ==
    IF Len(tokens) < 2 THEN Raise(w)
    ELSE LET target == _parse_int(tokens[1])
             user == _parse_int(tokens[2])
             r == reset_warnings(w.data, target.val, user.val)
         IN IF ~target.ok \/ ~user.ok THEN Raise(w)
            ELSE Ok(_send_to_chat(ApplyStore(w, r), e, chat_id,
                                  IF r.ret THEN "reset_done" ELSE "reset_not_found",
                                  user.val))

_cmd_reset_warning(w, e, chat_id, args) == WarningReset(w, e, chat_id, args)

\* handlers.get(command) and the call handler(chat_id, args), for a command
\* of the table
Dispatch(w, e, chat_id, command, args) ==
    CASE command \in {CMD_START, CMD_HELP} -> _cmd_help(w, e, chat_id, args)
      [] command = CMD_ADD_CHAT -> _cmd_add_chat(w, e, chat_id, args)
      [] command = CMD_REMOVE_CHAT -> _cmd_remove_chat(w, e, chat_id, args)
      [] command = CMD_LIST_CHATS -> _cmd_list_chats(w, e, chat_id, args)
      [] command = CMD_ADD_KEYWORD -> _cmd_add_keyword(w, e, chat_id, args)
      [] command = CMD_REMOVE_KEYWORD -> _cmd_remove_keyword(w, e, chat_id, args)
      [] command = CMD_LIST_KEYWORDS -> _cmd_list_keywords(w, e, chat_id, args)
      [] command = CMD_WARNINGS -> _cmd_warnings(w, e, chat_id, args)
      [] command = CMD_RESET_WARNING -> _cmd_reset_warning(w, e, chat_id, args)

KnownCommands ==
    {CMD_START, CMD_HELP, CMD_ADD_CHAT, CMD_REMOVE_CHAT, CMD_LIST_CHATS, CMD_ADD_KEYWORD,
     CMD_REMOVE_KEYWORD, CMD_LIST_KEYWORDS, CMD_WARNINGS, CMD_RESET_WARNING}

----------------------------------------------------------------------------
(* ModerationBot._handle_admin_message.                                    *)

\* the add-chat answer to a shared chat: add, try to capture the title, report
SharedChatAdd(w, e, admin_chat_id, shared_chat_id) ==
    LET r == add_chat(w.data, shared_chat_id, None)
        w1 == Say(ApplyStore(w, r), ApiCall("get_chat", shared_chat_id, "", <<>>, e))
        titled == "get_chat" \notin e.fail /\ e.title # None /\ e.title[1] # <<>>
        w2 == IF titled
              THEN ApplyStore(w1, update_chat_title(w1.data, shared_chat_id, e.title[1]))
              ELSE w1
    IN _send_to_chat(w2, e, admin_chat_id,
                     IF r.ret THEN "chat_added" ELSE "chat_exists", shared_chat_id)

\* the remove-chat answer that removes nothing
SharedChatRemove_noop(w, e, admin_chat_id, shared_chat_id) ==
    _send_to_chat(w, e, admin_chat_id, "chat_not_found", shared_chat_id)

\* the remove-chat answer to a shared chat
SharedChatRemove(w, e, admin_chat_id, shared_chat_id) ==
    LET r == remove_chat(w.data, shared_chat_id)
    IN _send_to_chat(ApplyStore(w, r), e, admin_chat_id,
                     IF r.ret THEN "chat_removed" ELSE "chat_not_found", shared_chat_id)

\* sess.get("data", {}).get("req_id") == request_id
SessionReqIdIs(w, chat_id, request_id) ==
    /\ chat_id \in DOMAIN w.sessions
    /\ w.sessions[chat_id].data = Some(request_id)

\* the try-block of the session step: the input read as the state expects it
SessionStep(w, e, chat_id, state, tokens, text) ==
    CASE state = "AWAIT_ADD_CHAT" -> _cmd_add_chat(w, e, chat_id, tokens)
      [] state = "AWAIT_REMOVE_CHAT" -> _cmd_remove_chat(w, e, chat_id, tokens)
      [] state = "AWAIT_ADD_KEYWORD" ->
            LET words == _parse_words_csv(text)
                r == add_keywords(w.data, words)
            IN IF words = <<>> THEN Raise(w)
               ELSE Ok(_send_to_chat(ApplyStore(w, r), e, chat_id,
                                     IF r.ret > 0 THEN "kw_added" ELSE "kw_none_new",
                                     r.ret))
      [] state = "AWAIT_REMOVE_KEYWORD" ->
            LET words == _parse_words_csv(text)
                r == remove_keywords(w.data, words)
            IN IF words = <<>> THEN Raise(w)
               ELSE Ok(_send_to_chat(ApplyStore(w, r), e, chat_id,
                                     IF r.ret > 0 THEN "kw_removed" ELSE "kw_no_match",
                                     r.ret))
      [] state = "AWAIT_WARNINGS" -> WarningsReport(w, e, chat_id, tokens)
      [] state = "AWAIT_RESET_WARNING" -> WarningReset(w, e, chat_id, tokens)
      [] OTHER -> Ok(w)

\* the except ValueError and the finally of the session step, r being what
\* the try-block did
EndSessionStep(r, e, chat_id, state) ==
    [_clear_session(IF r.err THEN _send_to_chat(r.w, e, chat_id, "error", <<>>) ELSE r.w,
                    chat_id)
        EXCEPT !.state = state, !.retb = r.err, !.path = "session"]

\* the session step: try, except ValueError, finally
RunSessionStep(w, e, chat_id, state, tokens, text) ==
    EndSessionStep(SessionStep(w, e, chat_id, state, tokens, text), e, chat_id, state)

\* reply_markup=self._main_keyboard(): ModerationBot defines no _main_keyboard,
\* so evaluating the argument raises AttributeError before anything is sent, and
\* the exception leaves the handler (raised)
SendWithMainKeyboard(w, e, chat_id, what) == [w EXCEPT !.raised = TRUE]

\* the except ValueError of the slash-command fallback, r being what the
\* command's handler did
EndCommand(r, e, chat_id) ==
    [(IF r.err THEN SendWithMainKeyboard(r.w, e, chat_id, "error") ELSE r.w)
        EXCEPT !.retb = r.err, !.path = "command"]

\* the slash-command fallback
RunCommand(w, e, chat_id, command, args) ==
    IF command = <<>> \/ Head(command) # "/"
    THEN Done(_show_root_menu(w, e, chat_id), "menu_fallback")
    ELSE IF command \notin KnownCommands
    THEN Done(SendWithMainKeyboard(w, e, chat_id, "unknown_command"), "unknown_command")
    ELSE EndCommand(Dispatch(w, e, chat_id, command, args), e, chat_id)

\* step 1 of the handler: the texts handled as button presses
ButtonTexts ==
    {BTN_MENU, CMD_START, CMD_HELP, BTN_HELP, BTN_BACK, BTN_GROUP_CHATS, BTN_LIST_CHATS,
     BTN_GROUP_WORDS, BTN_ADD_WORD, BTN_REMOVE_WORD, BTN_LIST_WORDS}

RunButton(w, e, chat_id, msg_id, text) ==
    LET echo == _maybe_delete_ui_echo(w, e, chat_id, msg_id, text)
    IN CASE text \in {BTN_MENU, CMD_START, CMD_HELP, BTN_HELP} ->
              Done(_show_root_menu(_clear_session(echo, chat_id), e, chat_id), "btn_menu")
         [] text = BTN_BACK ->
              Done(_show_root_menu(_clear_session(echo, chat_id), e, chat_id), "btn_back")
         [] text = BTN_GROUP_CHATS ->
              Done(_show_chats_menu(echo, e, chat_id), "btn_group_chats")
         [] text = BTN_LIST_CHATS ->
              Done(_cmd_list_chats(echo, e, chat_id, <<>>).w, "btn_list_chats")
         [] text = BTN_GROUP_WORDS ->
              Done(_show_words_menu(echo, e, chat_id), "btn_group_words")
         [] text = BTN_ADD_WORD ->
              Done(_send_to_chat(_set_session(echo, chat_id, "AWAIT_ADD_KEYWORD"), e,
                                 chat_id, "prompt_add_word", <<>>), "btn_add_word")
         [] text = BTN_REMOVE_WORD ->
              Done(_send_to_chat(_set_session(echo, chat_id, "AWAIT_REMOVE_KEYWORD"), e,
                                 chat_id, "prompt_remove_word", <<>>), "btn_remove_word")
         [] text = BTN_LIST_WORDS ->
              Done(_show_global_keywords(echo, e, chat_id), "btn_list_words")

\* everything after the chat_shared block: tokenise, buttons, session, commands
HandleAdminText(w, e, message) ==
    LET text == message.text
        chat_id == message.chat
        sh == ShlexSplit(text)
        tokens == sh.tokens
        command == IF tokens # <<>> THEN Lower(tokens[1]) ELSE <<>>
        args == IF tokens # <<>> THEN Tail(tokens) ELSE <<>>
        state == _get_session(w, chat_id)
    IN IF ~sh.ok THEN Done(w, "shlex_error")
       ELSE IF text \in ButtonTexts
       THEN RunButton(w, e, chat_id, message.message_id, text)
       ELSE IF state # ""
       THEN RunSessionStep(w, e, chat_id, state, tokens, text)
       ELSE RunCommand(w, e, chat_id, command, args)

_handle_admin_message(w, e, message) ==
    LET admin_chat_id == message.chat
        shared == message.chat_shared
        shared_chat_id == shared[1].chat_id
        request_id == shared[1].request_id
        state == _get_session(w, admin_chat_id)
    IN IF shared = None THEN HandleAdminText(w, e, message)
       ELSE IF request_id = REQ_ADD_CHAT
       THEN Done(SharedChatAdd(w, e, admin_chat_id, shared_chat_id), "shared_add")
       ELSE IF request_id = REQ_REMOVE_CHAT
       THEN Done(SharedChatRemove(w, e, admin_chat_id, shared_chat_id), "shared_remove")
       ELSE IF state = "AWAIT_ADD_CHAT_CHOOSE"
               /\ SessionReqIdIs(w, admin_chat_id, request_id)
       THEN Done(_clear_session(SharedChatAdd(w, e, admin_chat_id, shared_chat_id),
                                admin_chat_id), "legacy_add")
       ELSE IF state = "AWAIT_REMOVE_CHAT_CHOOSE"
               /\ SessionReqIdIs(w, admin_chat_id, request_id)
       THEN Done(_clear_session(SharedChatRemove(w, e, admin_chat_id, shared_chat_id),
                                admin_chat_id), "legacy_remove")
       ELSE HandleAdminText(w, e, message)

----------------------------------------------------------------------------
(* ModerationBot._handle_callback.                                         *)

\* callback data for which data.startswith("words:") holds
WordsCallbacks == {"words:add", "words:remove", "words:list", "words:other"}

_handle_callback(w, e, callback) ==
    LET data == callback.data
        chat_id == callback.chat[1]
        w0 == Say(w, ApiCall("answer_callback_query", 0, "", <<>>, e))
        cleared == _clear_session(w0, chat_id)
    IN IF callback.chat = None THEN Done(w0, "cb_no_chat")
       ELSE CASE data \in {"menu:root", "menu:start"} ->
                   Done(_show_root_menu(cleared, e, chat_id), "cb_root")
              [] data = "menu:chats" -> Done(_show_chats_menu(cleared, e, chat_id), "cb_chats")
              [] data = "menu:words" -> Done(_show_words_menu(cleared, e, chat_id), "cb_words")
              [] data = "menu:warnings" ->
                   Done(_set_session(_upsert_menu(cleared, e, chat_id, "prompt_warnings"),
                                     chat_id, "AWAIT_WARNINGS"), "cb_warnings")
              [] data = "menu:reset" ->
                   Done(_set_session(_upsert_menu(cleared, e, chat_id, "prompt_reset"),
                                     chat_id, "AWAIT_RESET_WARNING"), "cb_reset")
              [] data = "menu:help" -> Done(_cmd_help(w0, e, chat_id, <<>>).w, "cb_help")
              [] data = "chats:list" ->
                   Done(_upsert_menu(w0, e, chat_id,
                                     IF DOMAIN list_chats(w0.data) = {} THEN "no_chats"
                                     ELSE "list_chats"), "cb_list_chats")
              [] data \in {"chats:add", "chats:remove"} ->
                   Done(_send_to_chat(w0, e, chat_id, "press_button", <<>>), "cb_chats_hint")
              [] data = "words:add" ->
                   Done(_send_to_chat(_set_session(w0, chat_id, "AWAIT_ADD_KEYWORD"), e,
                                      chat_id, "prompt_add_word", <<>>), "cb_add_word")
              [] data = "words:remove" ->
                   Done(_send_to_chat(_set_session(w0, chat_id, "AWAIT_REMOVE_KEYWORD"), e,
                                      chat_id, "prompt_remove_word", <<>>), "cb_remove_word")
              [] data = "words:list" ->
                   Done(_show_global_keywords(w0, e, chat_id), "cb_list_words")
              [] OTHER -> Done(w0, "cb_ignored")

----------------------------------------------------------------------------
(* The flood limiter and ModerationBot._handle_moderation.                 *)

\* RL_MAX_MESSAGES and RL_WINDOW_SECONDS (getattr(config, ..., 10) and
\* getattr(config, ..., 60)): the model runs the limiter with a smaller
\* maximum and window
RL_MAX_MESSAGES == 2
RL_WINDOW_SECONDS == 2
\* the clock stops here
MaxTime == 6

\* self._rate_buckets[chat_id][user_id]: a missing key is an empty deque
Bucket(rate, chat_id, user_id) ==
    IF <<chat_id, user_id>> \in DOMAIN rate THEN rate[<<chat_id, user_id>>] ELSE <<>>

\* while dq and now - dq[0] > RL_WINDOW_SECONDS: dq.popleft()
RECURSIVE PruneWindow(_, _)
PruneWindow(dq, t) ==
    IF dq # <<>> /\ t - Head(dq) > RL_WINDOW_SECONDS THEN PruneWindow(Tail(dq), t) ELSE dq

\* the decision with len(dq) > RL_MAX_MESSAGES in place of >=
RateExceeded_strict(dq, t) ==
    Len(dq) > RL_MAX_MESSAGES /\ (dq # <<>> /\ t - Head(dq) <= RL_WINDOW_SECONDS)

\* the decision under _rate_lock, on the pruned window
RateExceeded(dq, t) ==
    Len(dq) >= RL_MAX_MESSAGES /\ (dq # <<>> /\ t - Head(dq) <= RL_WINDOW_SECONDS)

\* the block with dq.append(now) outside the else
CheckAndRecord_always(dq0, t) ==
    LET dq == PruneWindow(dq0, t)
        exceeded == RateExceeded(dq, t)
    IN [dq |-> Append(dq, t), exceeded |-> exceeded, aged |-> Len(dq0) - Len(dq)]

\* the whole block under _rate_lock: the deque it leaves, the decision, and
\* how many timestamps the loop dropped
CheckAndRecord(dq0, t) ==
    LET dq == PruneWindow(dq0, t)
        exceeded == RateExceeded(dq, t)
    IN [dq |-> IF exceeded THEN dq ELSE Append(dq, t), exceeded |-> exceeded,
        aged |-> Len(dq0) - Len(dq)]

\* [kw for kw in keywords if kw.casefold() in text_cf]
MatchedKeywords(keywords, text) ==
    LET text_cf == CaseFold(text)
        Hit(kw) == Contains(text_cf, CaseFold(kw))
    IN SelectSeq(keywords, Hit)

\* _can_ban that never finds the user among the administrators
_can_ban_any(e, chat_id, user_id) == TRUE

\* ModerationBot._can_ban, with the call it makes
_can_ban(e, chat_id, user_id) ==
    IF "get_chat_administrators" \in e.fail THEN TRUE
    ELSE user_id \notin ChatAdministrators(chat_id)

\* _enforce_ban that posts the group notice whether or not the ban was accepted
_enforce_ban_loud(w, e, chat_id, user_id) ==
    LET w1 == Say(w, ApiCall("get_chat_administrators", chat_id, "", <<>>, e))
        w2 == Say(w1, ApiCall("ban_chat_member", chat_id, "", user_id, e))
        r == reset_warnings(w2.data, chat_id, user_id)
    IN IF ~_can_ban(e, chat_id, user_id)
       THEN Done(Say(_notify_admins(w1, e, "ban_skipped"),
                     ApiCall("send_message", chat_id, "cannot_ban", <<>>, e)), "ban_skipped")
       ELSE IF "ban_chat_member" \in e.fail
       THEN Done(_notify_admins(_send_ephemeral(w2, e, chat_id, "ban_notice", <<>>),
                                e, "ban_failed"), "ban_failed")
       ELSE Done(_notify_admins(_send_ephemeral(ApplyStore(w2, r), e, chat_id,
                                                "ban_notice", <<>>),
                                e, "ban_admin_note"), "banned")

\* _enforce_ban with reset_warnings ahead of the ban call
_enforce_ban_eager(w, e, chat_id, user_id) ==
    LET w1 == Say(w, ApiCall("get_chat_administrators", chat_id, "", <<>>, e))
        r == reset_warnings(w1.data, chat_id, user_id)
        w2 == Say(ApplyStore(w1, r), ApiCall("ban_chat_member", chat_id, "", user_id, e))
    IN IF ~_can_ban(e, chat_id, user_id)
       THEN Done(Say(_notify_admins(w1, e, "ban_skipped"),
                     ApiCall("send_message", chat_id, "cannot_ban", <<>>, e)), "ban_skipped")
       ELSE IF "ban_chat_member" \in e.fail
       THEN Done(_notify_admins(w2, e, "ban_failed"), "ban_failed")
       ELSE Done(_notify_admins(_send_ephemeral(w2, e, chat_id, "ban_notice", <<>>),
                                e, "ban_admin_note"), "banned")

_enforce_ban(w, e, chat_id, user_id) ==
    LET w1 == Say(w, ApiCall("get_chat_administrators", chat_id, "", <<>>, e))
        w2 == Say(w1, ApiCall("ban_chat_member", chat_id, "", user_id, e))
        r == reset_warnings(w2.data, chat_id, user_id)
    IN IF ~_can_ban(e, chat_id, user_id)
       THEN Done(Say(_notify_admins(w1, e, "ban_skipped"),
                     ApiCall("send_message", chat_id, "cannot_ban", <<>>, e)), "ban_skipped")
       ELSE IF "ban_chat_member" \in e.fail
       THEN Done(_notify_admins(w2, e, "ban_failed"), "ban_failed")
       ELSE Done(_notify_admins(_send_ephemeral(ApplyStore(w2, r), e, chat_id,
                                                "ban_notice", <<>>),
                                e, "ban_admin_note"), "banned")

\* _process_violation with increment_warning ahead of the deletion
_process_violation_counting(w, e, message, matched_keywords) ==
    LET chat_id == message.chat
        user_id == message.user[1]
        r == increment_warning(w.data, chat_id, user_id)
        warning_count == r.ret
        w1 == Say(ApplyStore(w, r), ApiCall("delete_message", chat_id, "violation", <<>>, e))
        w2 == [w1 EXCEPT !.retn = warning_count]
        w3 == _send_ephemeral(w2, e, chat_id, "warning_notice",
                              <<warning_count, warning_limit>>)
    IN IF "delete_message" \in e.fail THEN Done(w1, "violation_delete_failed")
       ELSE IF warning_count >= warning_limit THEN _enforce_ban(w3, e, chat_id, user_id)
       ELSE Done(w3, "warned")

\* _process_violation with warning_count > limit in place of >=
_process_violation_late(w, e, message, matched_keywords) ==
    LET chat_id == message.chat
        user_id == message.user[1]
        w1 == Say(w, ApiCall("delete_message", chat_id, "violation", <<>>, e))
        r == increment_warning(w1.data, chat_id, user_id)
        warning_count == r.ret
        w2 == [ApplyStore(w1, r) EXCEPT !.retn = warning_count]
        w3 == _send_ephemeral(w2, e, chat_id, "warning_notice",
                              <<warning_count, warning_limit>>)
    IN IF "delete_message" \in e.fail THEN Done(w1, "violation_delete_failed")
       ELSE IF warning_count > warning_limit THEN _enforce_ban(w3, e, chat_id, user_id)
       ELSE Done(w3, "warned")

_process_violation(w, e, message, matched_keywords) ==
    LET chat_id == message.chat
        user_id == message.user[1]
        w1 == Say(w, ApiCall("delete_message", chat_id, "violation", <<>>, e))
        r == increment_warning(w1.data, chat_id, user_id)
        warning_count == r.ret
        w2 == [ApplyStore(w1, r) EXCEPT !.retn = warning_count]
        w3 == _send_ephemeral(w2, e, chat_id, "warning_notice",
                              <<warning_count, warning_limit>>)
    IN IF "delete_message" \in e.fail THEN Done(w1, "violation_delete_failed")
       ELSE IF warning_count >= warning_limit THEN _enforce_ban(w3, e, chat_id, user_id)
       ELSE Done(w3, "warned")

\* the length test one character late
is_long_late(text) == Len(text) > MAX_MESSAGE_LENGTH + 1

\* is_long = len(text) > self.MAX_MESSAGE_LENGTH
is_long(text) == Len(text) > MAX_MESSAGE_LENGTH

\* the handler with the text test ahead of the flood check: a message without
\* text or caption returns before it is recorded
ModerateMessage_text_first(w, e, message) ==
    LET chat_id == message.chat
        user_id == message.user[1]
        chk == CheckAndRecord(Bucket(w.rate, chat_id, user_id), e.t)
        w1 == [w EXCEPT !.now = e.t, !.retb = chk.exceeded, !.aged = chk.aged,
                        !.rate = DictSet(@, <<chat_id, user_id>>, chk.dq)]
        text == _extract_text(message)
        wdel(what) == Say(w1, ApiCall("delete_message", chat_id, what, <<>>, e))
        deleted == "delete_message" \notin e.fail
        matched == MatchedKeywords(get_keywords(w1.data), text)
    IN IF text = <<>> THEN Done([w EXCEPT !.now = e.t], "no_text")
       ELSE IF chk.exceeded
       THEN IF deleted
            THEN Done(_send_ephemeral(wdel("flood"), e, chat_id, "flood_notice", <<>>),
                      "flood")
            ELSE Done(wdel("flood"), "flood_delete_failed")
       ELSE IF is_long(text)
       THEN IF deleted
            THEN Done(_send_ephemeral(wdel("long"), e, chat_id, "too_long", <<>>), "long")
            ELSE Done(wdel("long"), "long_delete_failed")
       ELSE IF matched # <<>> THEN _process_violation(w1, e, message, matched)
       ELSE Done(w1, "clean")

\* the handler from the flood check on, banning the sender of a flood message
ModerateMessage_flood_ban(w, e, message) ==
    LET chat_id == message.chat
        user_id == message.user[1]
        chk == CheckAndRecord(Bucket(w.rate, chat_id, user_id), e.t)
        w1 == [w EXCEPT !.now = e.t, !.retb = chk.exceeded, !.aged = chk.aged,
                        !.rate = DictSet(@, <<chat_id, user_id>>, chk.dq)]
        text == _extract_text(message)
        wdel(what) == Say(w1, ApiCall("delete_message", chat_id, what, <<>>, e))
        deleted == "delete_message" \notin e.fail
        matched == MatchedKeywords(get_keywords(w1.data), text)
    IN IF chk.exceeded
       THEN IF deleted
            THEN _enforce_ban(_send_ephemeral(wdel("flood"), e, chat_id, "flood_notice",
                                              <<>>),
                              e, chat_id, user_id)
            ELSE Done(wdel("flood"), "flood_delete_failed")
       ELSE IF text = <<>> THEN Done(w1, "no_text")
       ELSE IF is_long(text)
       THEN IF deleted
            THEN Done(_send_ephemeral(wdel("long"), e, chat_id, "too_long", <<>>), "long")
            ELSE Done(wdel("long"), "long_delete_failed")
       ELSE IF matched # <<>> THEN _process_violation(w1, e, message, matched)
       ELSE Done(w1, "clean")

\* the handler from the flood check on (sender and message id are present)
ModerateMessage(w, e, message) ==
    LET chat_id == message.chat
        user_id == message.user[1]
        chk == CheckAndRecord(Bucket(w.rate, chat_id, user_id), e.t)
        w1 == [w EXCEPT !.now = e.t, !.retb = chk.exceeded, !.aged = chk.aged,
                        !.rate = DictSet(@, <<chat_id, user_id>>, chk.dq)]
        text == _extract_text(message)
        wdel(what) == Say(w1, ApiCall("delete_message", chat_id, what, <<>>, e))
        deleted == "delete_message" \notin e.fail
        matched == MatchedKeywords(get_keywords(w1.data), text)
    IN IF chk.exceeded
       THEN IF deleted
            THEN Done(_send_ephemeral(wdel("flood"), e, chat_id, "flood_notice", <<>>),
                      "flood")
            ELSE Done(wdel("flood"), "flood_delete_failed")
       ELSE IF text = <<>> THEN Done(w1, "no_text")
       ELSE IF is_long(text)
       THEN IF deleted
            THEN Done(_send_ephemeral(wdel("long"), e, chat_id, "too_long", <<>>), "long")
            ELSE Done(wdel("long"), "long_delete_failed")
       ELSE IF matched # <<>> THEN _process_violation(w1, e, message, matched)
       ELSE Done(w1, "clean")

\* _handle_moderation without the moderated-chat test
_handle_moderation_open(w, e, message) ==
    IF message.chat \in admin_chat_ids THEN Done(w, "skip_admin_chat")
    ELSE IF message.type \notin {"group", "supergroup"} THEN Done(w, "skip_type")
    ELSE IF message.user = None \/ message.message_id = None THEN Done(w, "skip_no_sender")
    ELSE ModerateMessage(w, e, message)

\* ModerationBot._handle_moderation up to the flood check
_handle_moderation(w, e, message) ==
    IF message.chat \in admin_chat_ids THEN Done(w, "skip_admin_chat")
    ELSE IF ~is_chat_moderated(w.data, message.chat) THEN Done(w, "skip_unmoderated")
    ELSE IF message.type \notin {"group", "supergroup"} THEN Done(w, "skip_type")
    ELSE IF message.user = None \/ message.message_id = None THEN Done(w, "skip_no_sender")
    ELSE ModerateMessage(w, e, message)

----------------------------------------------------------------------------
(* ModerationBot._handle_update and the updates the model delivers.        *)

\* _is_admin_context that looks at the chat id only
_is_admin_context_chat_only(message) == message.chat \in admin_chat_ids

\* ModerationBot._is_admin_context
_is_admin_context(message) ==
    \/ message.chat \in admin_chat_ids
    \/ /\ message.user # None
       /\ message.user[1] \in admin_user_ids
       /\ message.type = "private"

\* update.get("message") or update.get("edited_message") or
\* update.get("channel_post") or update.get("edited_channel_post"): each field
\* of an update is None or present
FirstMessage(update) ==
    IF update.message # None THEN update.message
    ELSE IF update.edited_message # None THEN update.edited_message
    ELSE IF update.channel_post # None THEN update.channel_post
    ELSE update.edited_channel_post

_handle_update(w, e, update) ==
    IF update.callback_query # None
    THEN [_handle_callback(w, e, update.callback_query[1]) EXCEPT !.op = "callback"]
    ELSE IF FirstMessage(update) = None THEN [w EXCEPT !.op = "none"]
    ELSE IF _is_admin_context(FirstMessage(update)[1])
    THEN [_handle_admin_message(w, e, FirstMessage(update)[1]) EXCEPT !.op = "admin"]
    ELSE [_handle_moderation(w, e, FirstMessage(update)[1]) EXCEPT !.op = "moderation"]

\* no counter and no keyword list beyond the model's caps
WithinBounds(d) ==
    /\ Len(d.global_keywords) <= MaxKeywords
    /\ \A c \in DOMAIN d.moderated_chats :
        \A u \in DOMAIN d.moderated_chats[c].warnings :
            d.moderated_chats[c].warnings[u] <= MaxWarnings

\* what last records of an update
UpdateChat(update) ==
    IF update.callback_query # None
    THEN IF update.callback_query[1].chat = None THEN 0 ELSE update.callback_query[1].chat[1]
    ELSE IF FirstMessage(update) = None THEN 0 ELSE FirstMessage(update)[1].chat

UpdateUser(update) ==
    IF update.callback_query # None \/ FirstMessage(update) = None THEN 0
    ELSE IF FirstMessage(update)[1].user = None THEN 0 ELSE FirstMessage(update)[1].user[1]

UpdateArg(update) ==
    IF update.callback_query # None THEN update.callback_query[1].data
    ELSE IF FirstMessage(update) = None THEN <<>> ELSE FirstMessage(update)[1].text

\* the request id of the chat_shared object of a message, 0 without one
UpdateReq(update) ==
    IF update.callback_query # None \/ FirstMessage(update) = None THEN 0
    ELSE IF FirstMessage(update)[1].chat_shared = None THEN 0
    ELSE FirstMessage(update)[1].chat_shared[1].request_id

\* the state a handler starts from
World ==
    [data |-> _data, disk |-> disk, sessions |-> _admin_sessions,
     menu |-> _admin_menu_message, rate |-> _rate_buckets, now |-> now,
     calls |-> <<>>, op |-> "", path |-> "", state |-> "", retb |-> FALSE,
     retn |-> 0, raised |-> FALSE, aged |-> 0]

\* the state a handler leaves
Commit(w, update) ==
    /\ WithinBounds(w.data)
    /\ _data' = w.data
    /\ disk' = w.disk
    /\ _admin_sessions' = w.sessions
    /\ _admin_menu_message' = w.menu
    /\ _rate_buckets' = w.rate
    /\ now' = w.now
    /\ calls' = w.calls
    /\ last' = [op |-> w.op, chat |-> UpdateChat(update), user |-> UpdateUser(update),
                arg |-> UpdateArg(update), path |-> w.path, state |-> w.state,
                retb |-> w.retb, retn |-> w.retn, raised |-> w.raised, aged |-> w.aged,
                req |-> UpdateReq(update), upd |-> update]

\* one worker runs _handle_update(update) to its end
HandleUpdate(update, e) ==
    /\ e.t >= now
    /\ Commit(_handle_update(World, e, update), update)
    /\ UNCHANGED threadVars

\* an update with no field present
EmptyUpdate ==
    [callback_query |-> None, message |-> None, edited_message |-> None,
     channel_post |-> None, edited_channel_post |-> None]

Message(chat, type, user, text, message_id, chat_shared) ==
    [chat |-> chat, type |-> type, user |-> user, text |-> text,
     message_id |-> message_id, chat_shared |-> chat_shared]

CallbackUpdate(data, chat) ==
    [EmptyUpdate EXCEPT !.callback_query = Some([data |-> data, chat |-> chat])]

MessageUpdate(chat, type, user, text, message_id, chat_shared) ==
    [EmptyUpdate EXCEPT !.message = Some(Message(chat, type, user, text, message_id,
                                                 chat_shared))]

\* the platform's answers during one update
Env(fail, title, t) == [fail |-> fail, title |-> title, t |-> t]

\* the times a handler may read: the same instant, the next, or past the window
Times == {t \in {now, now + 1, now + RL_WINDOW_SECONDS + 1} : t <= MaxTime}

\* the same without the intermediate instant
CoarseTimes == {t \in {now, now + RL_WINDOW_SECONDS + 1} : t <= MaxTime}

RECURSIVE Repeat(_, _)
Repeat(c, n) == IF n = 0 THEN <<>> ELSE <<c>> \o Repeat(c, n - 1)

\* group texts: none, clean, with a keyword in another spelling, over-long
\* without and with a keyword, and exactly MAX_MESSAGE_LENGTH with a keyword
GroupTexts ==
    {<<>>, <<"h", "i">>, <<"x", " ">> \o spam,
     Repeat("x", MAX_MESSAGE_LENGTH + 1),
     Repeat("x", MAX_MESSAGE_LENGTH + 1 - Len(Spam)) \o Spam,
     Repeat("x", MAX_MESSAGE_LENGTH - Len(Spam)) \o Spam}

\* admin texts of the whole-bot specification: stateless commands
AdminTextsCore ==
    {<<"/", "a", "d", "d", "_", "k", "e", "y", "w", "o", "r", "d", " ", "S", "p", "a", "m">>,
     <<"/", "r", "e", "s", "e", "t", "_", "w", "a", "r", "n", "i", "n", "g", " ", "1", " ", "1">>}

\* admin texts of the admin specification: session inputs (well-formed, malformed,
\* empty, an unbalanced quote), slash commands, every button label
AdminTextsFull ==
    {<<"1", " ", "1">>,
     <<"x">>,
     <<"S", "p", "a", "m", ",", " ", "s", "p", "a", "m">>,
     <<>>,
     <<"'", "a">>,
     <<"/", "l", "i", "s", "t", "_", "c", "h", "a", "t", "s">>,
     <<"/", "l", "i", "s", "t", "_", "k", "e", "y", "w", "o", "r", "d", "s">>,
     <<"/", "a", "d", "d", "_", "c", "h", "a", "t", " ", "1">>,
     <<"/", "a", "d", "d", "_", "c", "h", "a", "t", " ", "x">>,
     <<"/", "r", "e", "m", "o", "v", "e", "_", "c", "h", "a", "t">>,
     <<"/", "b", "o", "g", "u", "s">>}
    \cup ButtonTexts \cup {BTN_ADD_CHAT}

CallbackData ==
    {"menu:root", "menu:chats", "menu:words", "menu:warnings", "menu:reset", "menu:help",
     "chats:list", "chats:add", "words:add", "words:remove", "words:list", "words:other",
     "other"}

\* a chat-share message: reserved ids and a dynamically issued one
SharedRequests ==
    {[chat_id |-> c, request_id |-> r] :
        c \in {1}, r \in {REQ_ADD_CHAT, REQ_REMOVE_CHAT, 7}}

DeliverCallback(data, chat, e) == HandleUpdate(CallbackUpdate(data, chat), e)

DeliverAdminText(chat, text, e) ==
    HandleUpdate(MessageUpdate(chat, "private", Some(5), text, Some(1), None), e)

DeliverChatShared(chat, shared, e) ==
    HandleUpdate(MessageUpdate(chat, "private", Some(5), <<>>, Some(1), Some(shared)), e)

DeliverGroupMessage(chat, type, user, text, message_id, e) ==
    HandleUpdate(MessageUpdate(chat, type, user, text, message_id, None), e)

\* the platform during an admin update: all calls succeed (get_chat with or
\* without a title), get_chat fails, or sending and editing fail
AdminEnvs ==
    {Env({}, None, now), Env({}, Some(TitleT), now), Env({"get_chat"}, None, now),
     Env({"send_message", "edit_message_text"}, None, now)}

Calm == Env({}, None, now)

\* the platform during a group update: which of the calls the pipeline depends
\* on fail, and the time
GroupEnvs ==
    {Env(f, None, t) :
        f \in {{}, {"delete_message"}, {"get_chat_administrators"}, {"ban_chat_member"}},
        t \in CoarseTimes}

\* the platform during a group update of the limiter specification
FloodEnvs == {Env(f, None, t) : f \in {{}, {"delete_message"}}, t \in Times}

\* the admin surface alone, with every kind of admin text
AdminNext ==
    \/ \E d \in CallbackData, e \in AdminEnvs : DeliverCallback(d, Some(9), e)
    \/ DeliverCallback("menu:root", None, Calm)
    \/ \E t \in AdminTextsFull, e \in AdminEnvs : DeliverAdminText(9, t, e)
    \/ \E sh \in SharedRequests, e \in AdminEnvs : DeliverChatShared(9, sh, e)

SpecAdmin == Init /\ [][AdminNext]_vars

\* the whole bot, updates handled one at a time
Next ==
    \/ \E t \in AdminTextsCore : DeliverAdminText(9, t, Calm)
    \/ \E sh \in SharedRequests : DeliverChatShared(9, sh, Calm)
    \/ \E u \in UserIds, t \in GroupTexts, e \in GroupEnvs :
          DeliverGroupMessage(1, "supergroup", Some(u), t, Some(1), e)

Spec == Init /\ [][Next]_vars

\* the flood limiter: one moderated chat, two senders, texts no other rule touches
FloodNext ==
    \/ DeliverChatShared(9, [request_id |-> REQ_ADD_CHAT, chat_id |-> 1], Calm)
    \/ \E u \in UserIds, t \in {<<>>, <<"h", "i">>}, e \in FloodEnvs :
          DeliverGroupMessage(1, "supergroup", Some(u), t, Some(1), e)

SpecFlood == Init /\ [][FloodNext]_vars

\* messages of every routing case: a group member and a configured admin user
\* in the moderated group, the admin user and another user in private chats,
\* the admin chat with a group type and with no sender, a chat selection
RoutingMessages ==
    {Message(1, "supergroup", Some(1), <<"x", " ">> \o spam, Some(1), None),
     Message(1, "supergroup", Some(5), <<"h", "i">>, Some(1), None),
     Message(3, "private", Some(5), <<"/", "l", "i", "s", "t", "_", "k", "e", "y", "w", "o", "r", "d", "s">>, Some(1), None),
     Message(3, "private", Some(1), <<"h", "i">>, Some(1), None),
     Message(3, "private", None, <<"h", "i">>, Some(1), None),
     Message(9, "supergroup", Some(1),
             <<"/", "a", "d", "d", "_", "k", "e", "y", "w", "o", "r", "d", " ",
               "S", "p", "a", "m">>, Some(1), None),
     Message(9, "private", None, <<"/", "l", "i", "s", "t", "_", "c", "h", "a", "t", "s">>,
             Some(1), None),
     Message(9, "private", Some(5), <<>>, Some(1),
             Some([chat_id |-> 1, request_id |-> REQ_ADD_CHAT]))}

\* updates with no field, one message field, two message fields, a callback
\* query alone and a callback query beside a message
RoutingUpdates ==
    {EmptyUpdate}
    \cup {[EmptyUpdate EXCEPT !.message = Some(m)] : m \in RoutingMessages}
    \cup {[EmptyUpdate EXCEPT !.edited_message = Some(m)] : m \in RoutingMessages}
    \cup {[EmptyUpdate EXCEPT !.channel_post = Some(m)] : m \in RoutingMessages}
    \cup {[EmptyUpdate EXCEPT !.edited_channel_post = Some(m)] : m \in RoutingMessages}
    \cup {[EmptyUpdate EXCEPT !.edited_message = Some(m),
                              !.channel_post = Some(Message(1, "supergroup", Some(1),
                                                            <<"h", "i">>, Some(1), None))] :
             m \in RoutingMessages}
    \cup {[EmptyUpdate EXCEPT !.callback_query = Some([data |-> "words:add", chat |-> Some(9)]),
                              !.message = Some(m)] : m \in RoutingMessages}
    \cup {CallbackUpdate("menu:root", Some(9))}

\* _poll_updates hands each update of getUpdates, whatever its fields, to
\* _handle_update
RoutingNext == \E update \in RoutingUpdates : HandleUpdate(update, Calm)

SpecRouting == Init /\ [][RoutingNext]_vars

\* the chats a callback query's message may belong to: the moderated group
\* (where the bot posts its notices), the private chat of the configured admin
\* user (a private chat's id is the user's id) and the configured admin chat
CallbackChats == {1} \cup admin_user_ids \cup admin_chat_ids

\* the chats in which _is_admin_context holds of a message
AdminContextChats == admin_user_ids \cup admin_chat_ids

\* callback queries from every chat, with a moderated chat and a keyword to list
CallbackNext ==
    \/ DeliverChatShared(9, [request_id |-> REQ_ADD_CHAT, chat_id |-> 1], Calm)
    \/ DeliverAdminText(9, <<"/", "a", "d", "d", "_", "k", "e", "y", "w", "o", "r", "d", " ">>
                              \o Spam, Calm)
    \/ \E d \in CallbackData, c \in CallbackChats : DeliverCallback(d, Some(c), Calm)

SpecCallbacks == Init /\ [][CallbackNext]_vars

\* messages for the pipeline alone: moderated, unmoderated and admin chat ids,
\* group and other chat types, with and without a keyword
PipelineMessages ==
    {Message(c, ty, Some(1), t, Some(1), None) :
        c \in {1, 2, 9}, ty \in {"group", "supergroup", "private", "channel"},
        t \in {<<"h", "i">>, <<"x", " ">> \o spam}}

\* _handle_moderation(message) run to its end
ApplyModeration(message, e) ==
    /\ e.t >= now
    /\ Commit([_handle_moderation(World, e, message) EXCEPT !.op = "moderation"],
              [EmptyUpdate EXCEPT !.message = Some(message)])
    /\ UNCHANGED threadVars

\* the pipeline applied to any message, with the admin steps that fill the store
PipelineNext ==
    \/ \E t \in AdminTextsCore : DeliverAdminText(9, t, Calm)
    \/ \E sh \in SharedRequests : DeliverChatShared(9, sh, Calm)
    \/ \E m \in PipelineMessages, e \in FloodEnvs : ApplyModeration(m, e)

SpecPipeline == Init /\ [][PipelineNext]_vars

\* the chats an admin talks to the bot in: the configured admin chat and the
\* private chat of the configured admin user
SessionChats == {3, 9}

\* callbacks that set or clear a session
SessionCallbacks == {"words:add", "words:remove", "menu:warnings", "menu:reset", "menu:root"}

\* a session input, buttons that set and clear a session, an unbalanced quote
SessionTexts == {<<"x">>, BTN_ADD_WORD, BTN_REMOVE_WORD, BTN_BACK, <<"'", "a">>}

\* two admin conversations side by side, updates handled one at a time
SessionsNext ==
    \/ \E c \in SessionChats, d \in SessionCallbacks : DeliverCallback(d, Some(c), Calm)
    \/ \E c \in SessionChats, t \in SessionTexts : DeliverAdminText(c, t, Calm)

SpecSessions == Init /\ [][SessionsNext]_vars

----------------------------------------------------------------------------
(* ModerationBot.start, _poll_updates, the worker pool and stop.  The      *)
(* polling thread is at "loop" before the while test, at "fetch" while     *)
(* get_updates is in flight, at "sleep" in time.sleep(5), at "dispatch" in *)
(* the for loop; "exited" after the while test failed, "crashed" after an  *)
(* exception left _poll_updates.  A worker runs _handle_update between its *)
(* start and its finish; the handler's effect is taken at the finish.      *)

\* the update the platform delivers under each id: a command with a malformed
\* argument in the admin chat, the selection of chat 1 for moderation, a message in chat 1
UpdateOf(update_id) ==
    CASE update_id = 1 ->
            MessageUpdate(9, "private", Some(5),
                          <<"/", "a", "d", "d", "_", "c", "h", "a", "t", " ", "x">>,
                          Some(1), None)
      [] update_id = 2 ->
            MessageUpdate(9, "private", Some(5), <<>>, Some(1),
                          Some([chat_id |-> 1, request_id |-> REQ_ADD_CHAT]))
      [] OTHER -> MessageUpdate(1, "supergroup", Some(1), <<"h", "i">>, Some(1), None)

\* the batches get_updates may return: ids in any order, repeats included
FetchBatches == SeqsUpTo(1..MaxUpdateId, MaxFetchLen) \ {<<>>}

\* the cursor as a number, 0 for None
CursorValue(offset) == IF offset = None THEN 0 ELSE offset[1]

\* ModerationBot.start
start ==
    /\ main = "new"
    /\ main' = "running"
    /\ polling' = [polling EXCEPT !.pc = "loop"]
    /\ UNCHANGED <<_data, disk, botVars, last, _offset, _stop_event, _executor, workers, hist, files>>

\* while not self._stop_event.is_set(), and the get_updates call it leads to
PollCheckStop ==
    /\ polling.pc = "loop"
    /\ polling' = IF _stop_event THEN [polling EXCEPT !.pc = "exited"]
                  ELSE [polling EXCEPT !.pc = "fetch", !.offset = _offset]
    /\ UNCHANGED <<_data, disk, botVars, last, _offset, _stop_event, _executor, workers, main,
                   hist, files>>

\* a loop that returns when get_updates raises
OnFetchError_exit(p) == [p EXCEPT !.pc = "exited"]

\* except TelegramAPIError / except Exception: log, time.sleep(5), continue
OnFetchError(p) == [p EXCEPT !.pc = "sleep"]

\* get_updates raises
PollFetchFails ==
    /\ polling.pc = "fetch"
    /\ polling' = OnFetchError(polling)
    /\ hist' = [hist EXCEPT !.failed = CursorValue(polling.offset)]
    /\ UNCHANGED <<_data, disk, botVars, last, _offset, _stop_event, _executor, workers, main, files>>

\* time.sleep(5) returns
PollSleep ==
    /\ polling.pc = "sleep"
    /\ polling' = [polling EXCEPT !.pc = "loop"]
    /\ UNCHANGED <<_data, disk, botVars, last, _offset, _stop_event, _executor, workers, main,
                   hist, files>>

\* get_updates returns nothing: if not updates: continue
PollFetchEmpty ==
    /\ polling.pc = "fetch"
    /\ polling' = [polling EXCEPT !.pc = "loop"]
    /\ hist' = [hist EXCEPT !.failed = -1]
    /\ UNCHANGED <<_data, disk, botVars, last, _offset, _stop_event, _executor, workers, main, files>>

\* get_updates returns a batch
PollFetchBatch(updates) ==
    /\ polling.pc = "fetch"
    /\ hist.fetches < MaxFetches
    /\ polling' = [polling EXCEPT !.pc = "dispatch", !.updates = updates, !.i = 1]
    /\ hist' = [hist EXCEPT !.fetches = @ + 1, !.fetched = @ \o updates, !.failed = -1]
    /\ UNCHANGED <<_data, disk, botVars, last, _offset, _stop_event, _executor, workers, main, files>>

\* a submit that queues the work item twice
submit_twice(ex, update_id) == [ex EXCEPT !.queue = Append(Append(@, update_id), update_id)]

\* self._executor.submit(self._handle_update, update) on a pool that accepts work
submit(ex, update_id) == [ex EXCEPT !.queue = Append(@, update_id)]

\* one round of the for loop: the cursor moves, then the update is submitted;
\* submit on a pool that was shut down raises RuntimeError, which nothing in
\* _poll_updates catches
PollSubmit ==
    /\ polling.pc = "dispatch"
    /\ LET update_id == polling.updates[polling.i]
           more == polling.i < Len(polling.updates)
       IN /\ _offset' = Some(update_id + 1)
          /\ IF _executor.shutdown
             THEN /\ polling' = [polling EXCEPT !.pc = "crashed"]
                  /\ hist' = [hist EXCEPT !.seen = @ \cup {update_id}]
                  /\ UNCHANGED _executor
             ELSE /\ _executor' = submit(_executor, update_id)
                  /\ polling' = IF more THEN [polling EXCEPT !.i = @ + 1]
                                ELSE [polling EXCEPT !.pc = "loop"]
                  /\ hist' = [hist EXCEPT !.seen = @ \cup {update_id},
                                          !.submitted = Append(@, update_id)]
    /\ UNCHANGED <<_data, disk, botVars, last, _stop_event, workers, main, files>>

\* an idle worker takes the next work item and calls _handle_update
WorkerStart(wk) ==
    /\ workers[wk].pc = "idle"
    /\ _executor.queue # <<>>
    /\ workers' = [workers EXCEPT ![wk] = [pc |-> "running",
                                           task |-> Some(Head(_executor.queue)),
                                           loc |-> None]]
    /\ _executor' = [_executor EXCEPT !.queue = Tail(@)]
    /\ hist' = [hist EXCEPT !.started = @ + 1]
    /\ UNCHANGED <<_data, disk, botVars, last, _offset, _stop_event, polling, main, files>>

\* _handle_update returns or raises; either way the worker goes back to the
\* queue (an exception is kept in the future nobody reads)
WorkerFinish(wk) ==
    /\ workers[wk].pc = "running"
    /\ Commit(_handle_update(World, Calm, UpdateOf(workers[wk].task[1])),
              UpdateOf(workers[wk].task[1]))
    /\ workers' = [workers EXCEPT ![wk] = Idle]
    /\ hist' = [hist EXCEPT !.finished = @ + 1]
    /\ UNCHANGED <<_offset, _stop_event, _executor, polling, main, files>>

\* shutdown(wait=False): stop() does not wait for the workers
AllIdle_nowait(ws) == TRUE

\* for t in self._threads: t.join() has returned
AllIdle(ws) == \A wk \in DOMAIN ws : ws[wk].pc = "idle"

\* stop(): self._stop_event.set()
StopSet ==
    /\ main = "running"
    /\ _stop_event' = TRUE
    /\ main' = "shutdown"
    /\ UNCHANGED <<_data, disk, botVars, last, _offset, _executor, workers, polling, hist, files>>

\* stop(): self._executor.shutdown(wait=True, cancel_futures=True) sets the
\* shutdown flag
StopShutdown ==
    /\ main = "shutdown"
    /\ _executor' = [_executor EXCEPT !.shutdown = TRUE]
    /\ main' = "drain"
    /\ UNCHANGED <<_data, disk, botVars, last, _offset, _stop_event, workers, polling, hist, files>>

\* shutdown cancels the queued work items one by one (workers may still take
\* some), then wakes the workers
StopDrain ==
    /\ main = "drain"
    /\ IF _executor.queue # <<>>
       THEN /\ _executor' = [_executor EXCEPT !.queue = Tail(@)]
            /\ hist' = [hist EXCEPT !.cancelled = @ + 1]
            /\ UNCHANGED main
       ELSE /\ main' = "wait"
            /\ UNCHANGED <<_executor, hist, files>>
    /\ UNCHANGED <<_data, disk, botVars, last, _offset, _stop_event, workers, polling, files>>

\* shutdown joins the worker threads
StopWait ==
    /\ main = "wait"
    /\ AllIdle(workers)
    /\ main' = "join"
    /\ UNCHANGED <<_data, disk, botVars, last, _offset, _stop_event, _executor, workers,
                   polling, hist, files>>

\* stop(): the polling thread is joined for at most 5 seconds, and stop returns
StopJoin ==
    /\ main = "join"
    /\ main' = "stopped"
    /\ UNCHANGED <<_data, disk, botVars, last, _offset, _stop_event, _executor, workers,
                   polling, hist, files>>

\* the steps of the polling thread that need no answer from the platform
PollStep == PollCheckStop \/ PollSleep

IntakeNext ==
    \/ start
    \/ PollCheckStop
    \/ PollFetchFails
    \/ PollSleep
    \/ PollFetchEmpty
    \/ \E updates \in FetchBatches : PollFetchBatch(updates)
    \/ PollSubmit
    \/ \E wk \in DOMAIN workers : WorkerStart(wk)
    \/ \E wk \in DOMAIN workers : WorkerFinish(wk)
    \/ StopSet
    \/ StopShutdown
    \/ StopDrain
    \/ StopWait
    \/ StopJoin

SpecIntake == Init /\ [][IntakeNext]_vars

\* the same with a polling thread that is scheduled and whose sleep ends
SpecIntakeLive == Init /\ [][IntakeNext]_vars /\ WF_vars(PollStep)

----------------------------------------------------------------------------
(* Handlers of two workers interleaved.  The store's lock makes each of    *)
(* its methods atomic, nothing more: a handler that calls the store twice  *)
(* can see another worker's call in between.  A worker is at "checked"     *)
(* after the is_chat_moderated test of _handle_moderation, at "listing"    *)
(* after the list_chats call of _cmd_list_chats (loc holds the copy it was *)
(* given).  hist.removed is the set of chats an admin has removed and not  *)
(* added since.                                                            *)

\* a group message with a keyword, in the chat the admin adds and removes
RaceMessage == Message(1, "supergroup", Some(1), <<"x", " ">> \o spam, Some(1), None)

\* the admin's /list_chats
ListUpdate ==
    MessageUpdate(9, "private", Some(5),
                  <<"/", "l", "i", "s", "t", "_", "c", "h", "a", "t", "s">>, Some(1), None)

\* the admin shares chat 1 to add it or to remove it
RaceShared == {[chat_id |-> 1, request_id |-> r] : r \in {REQ_ADD_CHAT, REQ_REMOVE_CHAT}}

\* get_chat during a title refresh: no title, or a title
RaceEnvs == {Env({}, None, now), Env({}, Some(TitleT), now)}

\* a worker handles a chat_shared message of the admin from start to end
RaceAdmin(wk, sh) ==
    LET update == MessageUpdate(9, "private", Some(5), <<>>, Some(1), Some(sh))
    IN /\ workers[wk].pc = "idle"
       /\ Commit(_handle_update(World, Calm, update), update)
       /\ hist' = [hist EXCEPT !.removed =
                       IF sh.request_id = REQ_ADD_CHAT THEN @ \ {sh.chat_id}
                       ELSE IF is_chat_moderated(_data, sh.chat_id) THEN @ \cup {sh.chat_id}
                       ELSE @]
       /\ UNCHANGED <<_offset, _stop_event, _executor, workers, polling, main, files>>

\* _handle_moderation up to "if not self.store.is_chat_moderated(chat_id): return"
RaceCheck(wk) ==
    /\ workers[wk].pc = "idle"
    /\ IF is_chat_moderated(_data, RaceMessage.chat)
       THEN /\ workers' = [workers EXCEPT ![wk] = [pc |-> "checked",
                                                   task |-> Some(RaceMessage),
                                                   loc |-> None]]
            /\ UNCHANGED <<_data, disk, botVars, last, _offset, _stop_event, _executor,
                           polling, main, hist, files>>
       ELSE ApplyModeration(RaceMessage, Calm)

\* the rest of _handle_moderation, the store as it is by then
RaceModerate(wk) ==
    /\ workers[wk].pc = "checked"
    /\ Commit([ModerateMessage(World, Calm, workers[wk].task[1]) EXCEPT !.op = "moderation"],
              [EmptyUpdate EXCEPT !.message = workers[wk].task])
    /\ workers' = [workers EXCEPT ![wk] = Idle]
    /\ UNCHANGED <<_offset, _stop_event, _executor, polling, main, hist, files>>

\* _cmd_list_chats: chats = self.store.list_chats(), a copy of the entries
RaceListSnapshot(wk) ==
    /\ workers[wk].pc = "idle"
    /\ IF DOMAIN list_chats(_data) = {}
       THEN HandleUpdate(ListUpdate, Calm)
       ELSE /\ workers' = [workers EXCEPT ![wk] = [pc |-> "listing",
                                                   task |-> Some(ListUpdate),
                                                   loc |-> Some(list_chats(_data))]]
            /\ UNCHANGED <<_data, disk, botVars, last, _offset, _stop_event, _executor,
                           polling, main, hist, files>>

\* _resolve_chat_title_username(target_chat_id, payload.get("title") or "") for
\* every chat of the copy: the cached title is the copy's
RECURSIVE ResolveSnapshot(_, _, _, _, _)
ResolveSnapshot(w, e, ids, chats, lines) ==
    IF ids = <<>> THEN [w |-> w, lines |-> lines]
    ELSE LET c == Head(ids)
             cached == chats[c].title
             w1 == Say(w, ApiCall("get_chat", c, "", <<>>, e))
             failed == "get_chat" \in e.fail
             title == IF failed THEN cached
                      ELSE IF e.title # None /\ e.title[1] # <<>> THEN e.title[1]
                      ELSE cached
             w2 == IF ~failed /\ title # <<>> /\ title # cached
                   THEN ApplyStore(w1, update_chat_title(w1.data, c, title))
                   ELSE w1
         IN ResolveSnapshot(w2, e, Tail(ids), chats, Append(lines, title))

\* the loop of _cmd_list_chats over the copy and the listing it sends
RaceListRefresh(wk, e) ==
    /\ workers[wk].pc = "listing"
    /\ LET chats == workers[wk].loc[1]
           res == ResolveSnapshot(World, e, SortedSeq(DOMAIN chats), chats, <<>>)
       IN Commit([_send_to_chat(res.w, e, 9, "list_chats", res.lines)
                     EXCEPT !.op = "admin", !.path = "command"], ListUpdate)
    /\ workers' = [workers EXCEPT ![wk] = Idle]
    /\ UNCHANGED <<_offset, _stop_event, _executor, polling, main, hist, files>>

\* two workers: admin adds and removals, keyword commands, group messages, listings
RaceNext ==
    \/ \E t \in AdminTextsCore : DeliverAdminText(9, t, Calm)
    \/ \E wk \in DOMAIN workers, sh \in RaceShared : RaceAdmin(wk, sh)
    \/ \E wk \in DOMAIN workers : RaceCheck(wk)
    \/ \E wk \in DOMAIN workers : RaceModerate(wk)
    \/ \E wk \in DOMAIN workers : RaceListSnapshot(wk)
    \/ \E wk \in DOMAIN workers, e \in RaceEnvs : RaceListRefresh(wk, e)

SpecRace == Init /\ [][RaceNext]_vars

\* callbacks after which the admin chat has a pending session
PendingCallbacks == {"words:add", "words:remove", "menu:warnings"}

\* what the admin types while a session is pending
RaceTexts == {<<"x">>, <<"1", " ", "1">>}

AdminTextUpdate(text) == MessageUpdate(9, "private", Some(5), text, Some(1), None)

\* a callback that opens a session, handled while no worker is inside a text
\* message: from here on hist.consumed counts the messages processed against
\* this session
RaceSetSession(data) ==
    /\ AllIdle(workers)
    /\ Commit(_handle_update(World, Calm, CallbackUpdate(data, Some(9))),
              CallbackUpdate(data, Some(9)))
    /\ hist' = [hist EXCEPT !.consumed = 0]
    /\ UNCHANGED <<_offset, _stop_event, _executor, workers, polling, main, files>>

\* _handle_admin_message for a text that is no button, up to
\* "state = self._get_session(chat_id)": without a session the message is
\* handled statelessly, with one the worker holds the state it read
RaceGetSession(wk, text) ==
    /\ workers[wk].pc = "idle"
    /\ IF _get_session(World, 9) = ""
       THEN HandleUpdate(AdminTextUpdate(text), Calm)
       ELSE /\ workers' = [workers EXCEPT ![wk] = [pc |-> "session",
                                                   task |-> Some(AdminTextUpdate(text)),
                                                   loc |-> Some(_get_session(World, 9))]]
            /\ UNCHANGED <<_data, disk, botVars, last, _offset, _stop_event, _executor,
                           polling, main, hist, files>>

\* "if state:" with the state read before: the try-block, the except branch
\* and the finally that clears the session
RaceSessionStep(wk) ==
    /\ workers[wk].pc = "session"
    /\ LET update == workers[wk].task[1]
           message == FirstMessage(update)[1]
           state == workers[wk].loc[1]
       IN Commit([RunSessionStep(World, Calm, message.chat, state,
                                 ShlexSplit(message.text).tokens, message.text)
                     EXCEPT !.op = "admin"], update)
    /\ workers' = [workers EXCEPT ![wk] = Idle]
    /\ hist' = [hist EXCEPT !.consumed = @ + 1]
    /\ UNCHANGED <<_offset, _stop_event, _executor, polling, main, files>>

\* two workers and one admin chat: sessions opened, texts handled
SessionRaceNext ==
    \/ \E data \in PendingCallbacks : RaceSetSession(data)
    \/ \E wk \in DOMAIN workers, text \in RaceTexts : RaceGetSession(wk, text)
    \/ \E wk \in DOMAIN workers : RaceSessionStep(wk)

SpecSessionRace == Init /\ [][SessionRaceNext]_vars

\* a text no content rule touches, from either sender, in the moderated chat
RateMessage(user_id) == Message(1, "supergroup", Some(user_id), <<"h", "i">>, Some(1), None)

\* _handle_moderation up to "now = time.time()": the tests before it pass and
\* the worker holds the time it read; _rate_lock is not held yet
RaceReadClock(wk, user_id, t) ==
    /\ workers[wk].pc = "idle"
    /\ t >= now
    /\ IF is_chat_moderated(_data, 1)
       THEN /\ now' = t
            /\ workers' = [workers EXCEPT ![wk] = [pc |-> "timed",
                                                   task |-> Some(RateMessage(user_id)),
                                                   loc |-> Some(t)]]
            /\ UNCHANGED <<_data, disk, _admin_sessions, _admin_menu_message, _rate_buckets,
                           calls, last, _offset, _stop_event, _executor, polling, main, hist, files>>
       ELSE ApplyModeration(RateMessage(user_id), Env({}, None, t))

\* the messages of a key and a time that the flood check let pass so far
Accepted(h, chat_id, user_id, t) ==
    IF <<chat_id, user_id, t>> \in DOMAIN h.accepted THEN h.accepted[<<chat_id, user_id, t>>]
    ELSE 0

\* "with self._rate_lock:" and the rest of the handler, with the time read before
RaceRateCheck(wk) ==
    /\ workers[wk].pc = "timed"
    /\ LET message == workers[wk].task[1]
           t == workers[wk].loc[1]
           w == ModerateMessage(World, Env({}, None, t), message)
       IN /\ Commit([w EXCEPT !.now = now, !.op = "moderation"],
                    [EmptyUpdate EXCEPT !.message = Some(message)])
          /\ hist' = IF w.retb THEN hist
                     ELSE [hist EXCEPT !.accepted =
                               DictSet(@, <<message.chat, message.user[1], t>>,
                                       Accepted(hist, message.chat, message.user[1], t) + 1)]
    /\ workers' = [workers EXCEPT ![wk] = Idle]
    /\ UNCHANGED <<_offset, _stop_event, _executor, polling, main, files>>

\* two workers in the flood check of one moderated chat, two senders
RateRaceNext ==
    \/ DeliverChatShared(9, [request_id |-> REQ_ADD_CHAT, chat_id |-> 1], Calm)
    \/ \E wk \in DOMAIN workers, u \in UserIds, t \in CoarseTimes : RaceReadClock(wk, u, t)
    \/ \E wk \in DOMAIN workers : RaceRateCheck(wk)

SpecRateRace == Init /\ [][RateRaceNext]_vars

\* the platform while a worker finishes a violation: the ban is accepted or refused
NoticeEnvs == {Env({}, None, now), Env({"ban_chat_member"}, None, now)}

\* outcomes of _handle_moderation that went through increment_warning
CountedPaths == {"warned", "banned", "ban_failed", "ban_skipped"}

\* a keyword message of user 1 handled up to the successful delete_message of
\* _process_violation: the flood check has recorded it and the deletion was
\* requested.  A message that does not get that far is handled to its end.
RaceDeleteViolation(wk, e) ==
    /\ workers[wk].pc = "idle"
    /\ e.t >= now
    /\ LET w == [_handle_moderation(World, e, RaceMessage) EXCEPT !.op = "moderation"]
       IN IF w.path \in CountedPaths
          THEN /\ _rate_buckets' = w.rate
               /\ now' = w.now
               /\ calls' = <<w.calls[1]>>
               /\ workers' = [workers EXCEPT ![wk] = [pc |-> "deleted",
                                                      task |-> Some(RaceMessage),
                                                      loc |-> None]]
               /\ UNCHANGED <<_data, disk, _admin_sessions, _admin_menu_message, last,
                              _offset, _stop_event, _executor, polling, main, hist, files>>
          ELSE /\ Commit(w, [EmptyUpdate EXCEPT !.message = Some(RaceMessage)])
               /\ UNCHANGED threadVars

\* warning_count = self.store.increment_warning(chat_id, user_id)
RaceIncrement(wk) ==
    /\ workers[wk].pc = "deleted"
    /\ LET message == workers[wk].task[1]
           r == increment_warning(_data, message.chat, message.user[1])
       IN /\ r.ret <= MaxWarnings
          /\ _data' = r.data
          /\ disk' = Persisted(r, disk)
          /\ workers' = [workers EXCEPT ![wk] = [@ EXCEPT !.pc = "counted",
                                                          !.loc = Some(r.ret)]]
          /\ hist' = [hist EXCEPT !.counts = Append(@, r.ret)]
    /\ UNCHANGED <<botVars, last, _offset, _stop_event, _executor, polling, main, files>>

\* the warning notice and, at the limit, _enforce_ban, with the count the
\* worker was given
RaceNotice(wk, e) ==
    /\ workers[wk].pc = "counted"
    /\ LET message == workers[wk].task[1]
           chat_id == message.chat
           user_id == message.user[1]
           warning_count == workers[wk].loc[1]
           w3 == _send_ephemeral([World EXCEPT !.retn = warning_count], e, chat_id,
                                 "warning_notice", <<warning_count, warning_limit>>)
           w == IF warning_count >= warning_limit THEN _enforce_ban(w3, e, chat_id, user_id)
                ELSE Done(w3, "warned")
       IN /\ Commit([w EXCEPT !.op = "moderation"],
                    [EmptyUpdate EXCEPT !.message = Some(message)])
          /\ hist' = IF w.path = "banned" THEN [hist EXCEPT !.counts = <<>>] ELSE hist
    /\ workers' = [workers EXCEPT ![wk] = Idle]
    /\ UNCHANGED <<_offset, _stop_event, _executor, polling, main, files>>

\* two workers on keyword messages of one user in one chat
WarnRaceNext ==
    \/ DeliverChatShared(9, [request_id |-> REQ_ADD_CHAT, chat_id |-> 1], Calm)
    \/ DeliverAdminText(9, CMD_ADD_KEYWORD \o <<" ">> \o Spam, Calm)
    \/ \E wk \in DOMAIN workers, t \in CoarseTimes :
          RaceDeleteViolation(wk, Env({}, None, t))
    \/ \E wk \in DOMAIN workers : RaceIncrement(wk)
    \/ \E wk \in DOMAIN workers, e \in NoticeEnvs : RaceNotice(wk, e)

SpecWarnRace == Init /\ [][WarnRaceNext]_vars

\* what an admin can press or type to start something, in the order this
\* admin goes through it: every button label of the keyboards, every slash
\* command on its own, every callback of the inline menus
AskTexts ==
    <<BTN_MENU, BTN_GROUP_CHATS, BTN_LIST_CHATS, BTN_ADD_CHAT, BTN_REMOVE_CHAT, BTN_BACK,
      BTN_GROUP_WORDS, BTN_ADD_WORD, BTN_REMOVE_WORD, BTN_LIST_WORDS, BTN_WARNINGS,
      BTN_RESET_WARNING, BTN_HELP, CMD_START, CMD_HELP, CMD_ADD_CHAT, CMD_REMOVE_CHAT,
      CMD_LIST_CHATS, CMD_ADD_KEYWORD, CMD_REMOVE_KEYWORD, CMD_LIST_KEYWORDS, CMD_WARNINGS,
      CMD_RESET_WARNING>>

AskCallbacks ==
    <<"menu:root", "menu:chats", "menu:words", "menu:warnings", "menu:reset", "menu:help",
      "chats:list", "chats:add", "words:add", "words:remove", "words:list", "words:other",
      "other">>

\* the update the admin sends as number n of a round
AskUpdate(n) ==
    IF n <= Len(AskTexts)
    THEN MessageUpdate(9, "private", Some(5), AskTexts[n], Some(1), None)
    ELSE CallbackUpdate(AskCallbacks[n - Len(AskTexts)], Some(9))

\* the admin uses the next button, command or callback of the round, the
\* platform answering as it likes, and starts over after the last
AskProbe(e) ==
    LET n == hist.tried + 1
    IN /\ Commit(_handle_update(World, e, AskUpdate(n)), AskUpdate(n))
       /\ hist' = [hist EXCEPT !.tried = (@ + 1) % (Len(AskTexts) + Len(AskCallbacks))]
       /\ UNCHANGED <<_offset, _stop_event, _executor, workers, polling, main, files>>

AskNext == \E e \in AdminEnvs : AskProbe(e)

\* the round goes on by one
AskOn == hist' = [hist EXCEPT !.tried = (@ + 1) % (Len(AskTexts) + Len(AskCallbacks))]

\* an admin who goes round and never stops
SpecAskLive == Init /\ [][AskNext]_vars /\ WF_hist(AskOn)

----------------------------------------------------------------------------
(* ModerationStore._persist and _load: the file as the sequence of the     *)
(* members json.dump writes, and the document json.load builds from them.  *)

\* the members of one chat's "warnings" object
RECURSIVE DumpWarnings(_, _, _)
DumpWarnings(c, warnings, users) ==
    IF users = <<>> THEN <<>>
    ELSE <<<<"warning", c, Head(users), warnings[Head(users)]>>>>
         \o DumpWarnings(c, warnings, Tail(users))

\* the members of "moderated_chats"
RECURSIVE DumpChats(_, _)
DumpChats(chats, ids) ==
    IF ids = <<>> THEN <<>>
    ELSE LET c == Head(ids)
         IN <<<<"chat", c, chats[c].title>>>>
            \o DumpWarnings(c, chats[c].warnings, SortedSeq(DOMAIN chats[c].warnings))
            \o DumpChats(chats, Tail(ids))

\* json.dump(self._data, fh, ...)
JsonDump(d) ==
    DumpChats(d.moderated_chats, SortedSeq(DOMAIN d.moderated_chats))
    \o [i \in 1..Len(d.global_keywords) |-> <<"keyword", d.global_keywords[i]>>]

\* json.load(fh), member by member
RECURSIVE JsonLoad(_, _)
JsonLoad(file, d) ==
    IF file = <<>> THEN d
    ELSE LET m == Head(file)
             d1 == CASE m[1] = "chat" ->
                          [d EXCEPT !.moderated_chats =
                              DictSet(@, m[2], [NewChatEntry EXCEPT !.title = m[3]])]
                     [] m[1] = "warning" ->
                          [d EXCEPT !.moderated_chats[m[2]].warnings = DictSet(@, m[3], m[4])]
                     [] m[1] = "keyword" ->
                          [d EXCEPT !.global_keywords = Append(@, m[2])]
         IN JsonLoad(Tail(file), d1)

\* ModerationStore(storage_path) on the path a store persisted dsk to: __init__
\* sets the defaults and _load replaces them by what the file holds
_load(dsk) == JsonLoad(JsonDump(dsk), DefaultData)

\* the words the store specification adds and removes, one per call
StoreWords == {<<Spam>>, <<spam>>, <<Ads>>}

\* the whole store driven directly: one chat, its counters, the keyword list
StoreNext ==
    \/ \E t \in {None, Some(TitleT)} : StoreAddChat(1, t)
    \/ StoreUpdateChatTitle(1, TitleT)
    \/ StoreRemoveChat(1)
    \/ \E u \in UserIds : StoreIncrementWarning(1, u)
    \/ \E u \in UserIds : StoreResetWarnings(1, u)
    \/ \E ws \in StoreWords : StoreAddKeywords(ws)
    \/ \E ws \in StoreWords : StoreRemoveKeywords(ws)

SpecStore == Init /\ [][StoreNext]_vars

----------------------------------------------------------------------------
(* _persist step by step, the process crashing and starting again.  A file *)
(* is absent, complete (json.dump ran to its end and the file was closed), *)
(* truncated (a prefix of a document: json.load raises JSONDecodeError) or *)
(* undecodable (bytes that are not UTF-8, as a text cut inside a character *)
(* is: reading raises UnicodeDecodeError).  main is "new" while no process *)
(* holds a store and "running" once ModerationStore(path) has returned.    *)

\* what json.dump(self._data, fh) leaves once the file is closed
CompleteFile(d) == [state |-> "complete", members |-> JsonDump(d)]

\* ModerationStore.__init__ with _load, on the file at _path: the document the
\* store starts with, or the exception that leaves __init__ (only
\* json.JSONDecodeError is caught)
_load_file(file) ==
    CASE file.state = "absent" -> [data |-> DefaultData, raised |-> FALSE]
      [] file.state = "complete" ->
            [data |-> JsonLoad(file.members, DefaultData), raised |-> FALSE]
      [] file.state = "truncated" -> [data |-> DefaultData, raised |-> FALSE]
      [] file.state = "undecodable" -> [data |-> DefaultData, raised |-> TRUE]

\* the process starts: ModerationStore(storage_path)
StorageStart ==
    /\ main = "new"
    /\ LET r == _load_file(files.path)
       IN /\ _data' = r.data
          /\ main' = IF r.raised THEN "new" ELSE "running"
          /\ last' = [NoLast EXCEPT !.op = "load", !.raised = r.raised]
    /\ UNCHANGED <<disk, botVars, _offset, _stop_event, _executor, workers, polling, hist,
                   files>>

\* the mutators the storage specification calls
StorageOps == {"add_chat", "add_titled_chat", "remove_chat", "increment_warning", "add_keywords"}

\* what the mutator returns: the document in memory and whether it persists
StorageCall(d, op) ==
    LET r == CASE op = "add_chat" -> add_chat(d, 1, None)
               [] op = "add_titled_chat" -> add_chat(d, 1, Some(TitleT))
               [] op = "remove_chat" -> remove_chat(d, 1)
               [] op = "increment_warning" -> increment_warning(d, 1, 1)
               [] op = "add_keywords" -> add_keywords(d, <<Spam>>)
    IN [data |-> r.data, persisted |-> r.persisted]

\* a mutator of the store up to its self._persist() call, under the store's lock
StorageMutate(wk, r) ==
    /\ main = "running"
    /\ AllIdle(workers)
    /\ WithinBounds(r.data)
    /\ _data' = r.data
    /\ workers' = IF r.persisted
                  THEN [workers EXCEPT ![wk] = [pc |-> "persist_open", task |-> None,
                                                loc |-> None]]
                  ELSE workers
    /\ last' = [NoLast EXCEPT !.op = "mutate", !.retb = r.persisted]
    /\ UNCHANGED <<disk, botVars, _offset, _stop_event, _executor, polling, main, hist, files>>

\* tmp_path.open("w", encoding="utf-8"): the temporary file exists and is empty
PersistOpen(wk) ==
    /\ workers[wk].pc = "persist_open"
    /\ files' = [files EXCEPT !.tmp = [state |-> "truncated", members |-> <<>>]]
    /\ workers' = [workers EXCEPT ![wk].pc = "persist_write"]
    /\ UNCHANGED <<_data, disk, botVars, last, _offset, _stop_event, _executor, polling, main,
                   hist>>

\* json.dump(self._data, fh, ...): the next member reaches the temporary file
PersistWrite(wk) ==
    /\ workers[wk].pc = "persist_write"
    /\ Len(files.tmp.members) < Len(JsonDump(_data))
    /\ files' = [files EXCEPT !.tmp.members =
                    Append(@, JsonDump(_data)[Len(files.tmp.members) + 1])]
    /\ UNCHANGED <<_data, disk, botVars, last, _offset, _stop_event, _executor, workers,
                   polling, main, hist>>

\* the end of the with block: everything is written and the file is closed
PersistClose(wk) ==
    /\ workers[wk].pc = "persist_write"
    /\ files.tmp.members = JsonDump(_data)
    /\ files' = [files EXCEPT !.tmp.state = "complete"]
    /\ workers' = [workers EXCEPT ![wk].pc = "persist_replace"]
    /\ UNCHANGED <<_data, disk, botVars, last, _offset, _stop_event, _executor, polling, main,
                   hist>>

\* tmp_path.replace(self._path), and the mutator returns
PersistReplace(wk) ==
    /\ workers[wk].pc = "persist_replace"
    /\ files' = [path |-> files.tmp, tmp |-> Absent]
    /\ disk' = _data
    /\ workers' = [workers EXCEPT ![wk] = Idle]
    /\ UNCHANGED <<_data, botVars, last, _offset, _stop_event, _executor, polling, main, hist>>

\* the process dies wherever it is: memory is gone, the files stay
StorageCrash ==
    /\ main = "running"
    /\ main' = "new"
    /\ workers' = [wk \in DOMAIN workers |-> Idle]
    /\ _data' = DefaultData
    /\ last' = [NoLast EXCEPT !.op = "crash"]
    /\ UNCHANGED <<disk, botVars, _offset, _stop_event, _executor, polling, hist, files>>

\* what can make the file at _path unreadable while no process runs
Damages == {"truncated", "undecodable"}

\* the file at _path is damaged from outside
StorageDamage(kind) ==
    /\ main = "new"
    /\ files.path.state = "complete"
    /\ files' = [files EXCEPT !.path.state = kind]
    /\ last' = [NoLast EXCEPT !.op = "damage"]
    /\ UNCHANGED <<_data, disk, botVars, _offset, _stop_event, _executor, workers, polling,
                   main, hist>>

\* one process at a time on one storage path
StorageNext ==
    \/ StorageStart
    \/ \E wk \in DOMAIN workers, op \in StorageOps :
          StorageMutate(wk, StorageCall(_data, op))
    \/ \E wk \in DOMAIN workers : PersistOpen(wk)
    \/ \E wk \in DOMAIN workers : PersistWrite(wk)
    \/ \E wk \in DOMAIN workers : PersistClose(wk)
    \/ \E wk \in DOMAIN workers : PersistReplace(wk)
    \/ StorageCrash
    \/ \E kind \in Damages : StorageDamage(kind)

SpecStorage == Init /\ [][StorageNext]_vars

----------------------------------------------------------------------------
(* Claims about the keyword list.                                          *)

NoCaseFoldDuplicates(kws) ==
    \A i, j \in 1..Len(kws) : i # j => CaseFold(kws[i]) # CaseFold(kws[j])

IsPrefix(p, s) == Len(p) <= Len(s) /\ SubSeq(s, 1, Len(p)) = p

\* s is t with some entries left out, the others in their order
RECURSIVE IsSubsequence(_, _)
IsSubsequence(s, t) ==
    IF s = <<>> THEN TRUE
    ELSE IF t = <<>> THEN FALSE
    ELSE IF Head(s) = Head(t) THEN IsSubsequence(Tail(s), Tail(t))
    ELSE IsSubsequence(s, Tail(t))

\* C1: after every add_keywords / remove_keywords call the keyword list holds
\* no two entries equal under case-folding, and the entries that survive keep
\* their position order and spelling (an add only appends, a remove only drops).
C1_KeywordsUniqueUnderCaseFold ==
    [][/\ NoCaseFoldDuplicates(_data'.global_keywords)
       /\ last'.op = "add_keywords"
            => IsPrefix(_data.global_keywords, _data'.global_keywords)
       /\ last'.op = "remove_keywords"
            => IsSubsequence(_data'.global_keywords, _data.global_keywords)]_vars

----------------------------------------------------------------------------
(* Claims about the flood limiter.                                         *)

\* the paths of _handle_moderation that return before the flood check
SkipPaths == {"skip_admin_chat", "skip_unmoderated", "skip_type", "skip_no_sender"}

\* l is a group message that reached the flood check
Qualifying(l) == l.op = "moderation" /\ l.path \notin SkipPaths

\* the positions of dq whose timestamp is within the window at time t
Recent(dq, t) == {i \in 1..Len(dq) : t - dq[i] <= RL_WINDOW_SECONDS}

\* the call cs holds of method m on chat c, if any
Issued(cs, m, c) == \E i \in 1..Len(cs) : cs[i].m = m /\ cs[i].chat = c

\* the same, and the platform accepted it
Succeeded(cs, m, c) == \E i \in 1..Len(cs) : cs[i].m = m /\ cs[i].chat = c /\ cs[i].ok

\* C2: a qualifying message is reported exceeded exactly when the key's window
\* already holds RL_MAX_MESSAGES timestamps no older than RL_WINDOW_SECONDS (so
\* the first RL_MAX_MESSAGES messages of a window are not exceeded and the next
\* one is), and a message reported exceeded has its deletion requested.
C2_RateLimiterThreshold ==
    [][Qualifying(last') =>
          LET dq == Bucket(_rate_buckets, last'.chat, last'.user)
          IN /\ last'.retb <=> Cardinality(Recent(dq, now')) >= RL_MAX_MESSAGES
             /\ last'.retb => Issued(calls', "delete_message", last'.chat)]_vars

\* a message was flagged with the window holding exactly the maximum
C2_Witness ==
    /\ Qualifying(last)
    /\ last.retb
    /\ last.path = "flood"
    /\ Len(Bucket(_rate_buckets, last.chat, last.user)) = RL_MAX_MESSAGES

\* C3: a message reported exceeded leaves the key's window as it was (its
\* timestamp is not recorded), the window never holds more than RL_MAX_MESSAGES
\* timestamps, and a message arriving more than RL_WINDOW_SECONDS after the
\* oldest recorded timestamp is not exceeded.
C3_RateLimiterRecovery ==
    [][Qualifying(last') =>
          LET dq == Bucket(_rate_buckets, last'.chat, last'.user)
              dq1 == Bucket(_rate_buckets', last'.chat, last'.user)
          IN /\ last'.retb => dq1 = dq
             /\ Len(dq1) <= RL_MAX_MESSAGES
             /\ (dq # <<>> /\ now' - dq[1] > RL_WINDOW_SECONDS) => ~last'.retb]_vars

\* a message passed after a full window had aged out
C3_Witness ==
    /\ Qualifying(last)
    /\ ~last.retb
    /\ last.aged = RL_MAX_MESSAGES
    /\ Bucket(_rate_buckets, last.chat, last.user) = <<now>>

----------------------------------------------------------------------------
(* Claims about the moderation pipeline and the warning counters.          *)

\* C4: a qualifying message whose text is longer than MAX_MESSAGE_LENGTH has its
\* deletion requested, and its handling changes no stored document (no counter
\* moves) and requests no ban, whether or not the text holds a keyword.
C4_LongMessageDeletedOnly ==
    [][(Qualifying(last') /\ Len(last'.arg) > MAX_MESSAGE_LENGTH) =>
          /\ Issued(calls', "delete_message", last'.chat)
          /\ _data' = _data
          /\ ~Issued(calls', "ban_chat_member", last'.chat)]_vars

\* an over-long text holding a keyword went down the long-message path
C4_Witness ==
    /\ last.path = "long"
    /\ Len(last.arg) > MAX_MESSAGE_LENGTH
    /\ MatchedKeywords(get_keywords(_data), last.arg) # <<>>

\* the admin text /reset_warning 1 1
ResetText == CMD_RESET_WARNING \o <<" ", "1", " ", "1">>

\* l is the admin command resetting the pair (c, u)
AdminReset(l, c, u) == l.op = "admin" /\ l.arg = ResetText /\ c = 1 /\ u = 1

\* the pair (c, u) has no counter in d
NoCounter(d, c, u) ==
    c \notin DOMAIN d.moderated_chats \/ u \notin DOMAIN d.moderated_chats[c].warnings

\* C5: no counter is negative; a counter decreases only in an admin reset of its
\* pair, a successful ban of its user in its chat, or a step that removes its
\* chat; reset_warnings on a pair without counter returns false and the store's
\* document; and the reset command on such a pair changes nothing and reports
\* not found without raising.
C5_WarningsMonotone ==
    [][\A c \in GroupChats, u \in UserIds :
          /\ get_warning(_data', c, u) >= 0
          /\ get_warning(_data', c, u) < get_warning(_data, c, u) =>
                \/ AdminReset(last', c, u)
                \/ last'.path = "banned" /\ last'.chat = c /\ last'.user = u
                \/ ~is_chat_moderated(_data', c)
          /\ NoCounter(_data, c, u) =>
                /\ ~reset_warnings(_data, c, u).ret
                /\ reset_warnings(_data, c, u).data = _data
                /\ AdminReset(last', c, u) =>
                      /\ _data' = _data
                      /\ ~last'.raised
                      /\ calls'[Len(calls')].what = "reset_not_found"]_vars

\* the reset command cleared an existing counter
C5_Witness ==
    /\ AdminReset(last, 1, 1)
    /\ calls # <<>> /\ calls[Len(calls)].what = "reset_done"
    /\ NoCounter(_data, 1, 1)
    /\ get_warning(_data, 1, 2) > 0

\* C6: a keyword violation by a user who is not an administrator of the chat,
\* with the deletion accepted, raises the user's counter by exactly one; below
\* warning_limit no ban is requested and the counter stays; from warning_limit
\* on a ban is requested, and when it is accepted the user has no counter left.
C6_EscalationThreshold ==
    [][(/\ Qualifying(last')
        /\ ~last'.retb
        /\ last'.arg # <<>>
        /\ Len(last'.arg) <= MAX_MESSAGE_LENGTH
        /\ MatchedKeywords(get_keywords(_data), last'.arg) # <<>>
        /\ Succeeded(calls', "delete_message", last'.chat)
        /\ last'.user \notin ChatAdministrators(last'.chat)) =>
          LET c == last'.chat
              u == last'.user
              n == get_warning(_data, c, u) + 1
          IN /\ last'.retn = n
             /\ n < warning_limit =>
                   /\ get_warning(_data', c, u) = n
                   /\ ~Issued(calls', "ban_chat_member", c)
             /\ n >= warning_limit =>
                   /\ Issued(calls', "ban_chat_member", c)
                   /\ IF Succeeded(calls', "ban_chat_member", c)
                      THEN NoCounter(_data', c, u) /\ get_warning(_data', c, u) = 0
                      ELSE get_warning(_data', c, u) = n]_vars

\* the violation that reached warning_limit ended in an accepted ban
C6_Witness ==
    /\ last.path = "banned"
    /\ last.retn = warning_limit
    /\ last.user \notin ChatAdministrators(last.chat)
    /\ Succeeded(calls, "ban_chat_member", last.chat)
    /\ NoCounter(_data, last.chat, last.user)

\* C7: after remove_chat(c) returned true, list_chats has no c, c is not
\* moderated, get_warning(c, u) is 0 for every user and get_all_warnings(c) is
\* empty; and a chat that add_chat newly created holds no counter.
C7_RemoveChatDiscardsCounters ==
    [][/\ (last'.op = "remove_chat" /\ last'.retb) =>
             LET c == last'.chat
             IN /\ c \notin DOMAIN list_chats(_data')
                /\ ~is_chat_moderated(_data', c)
                /\ \A u \in UserIds : get_warning(_data', c, u) = 0
                /\ DOMAIN get_all_warnings(_data', c) = {}
       /\ (last'.op = "add_chat" /\ last'.retb) =>
             /\ DOMAIN get_all_warnings(_data', last'.chat) = {}
             /\ \A u \in UserIds : get_warning(_data', last'.chat, u) = 0]_vars

\* a chat holding counters was removed
C7_Witness ==
    /\ last.op = "remove_chat"
    /\ last.retb
    /\ last.retn > 0
    /\ ~is_chat_moderated(_data, last.chat)

----------------------------------------------------------------------------
(* Claims about the admin session.                                         *)

\* l is a message handled for an admin chat with a session pending in ss
PendingMessage(l, ss) == l.op = "admin" /\ l.chat \in DOMAIN ss

\* C8: when a message is handled for an admin chat that has a session, the chat
\* has no session once the handler is done, whatever the message is.
C8_SessionClearedByNextMessage ==
    [][PendingMessage(last', _admin_sessions) =>
          last'.chat \notin DOMAIN _admin_sessions']_vars

IsSlash(text) == text # <<>> /\ Head(text) = "/"

Listings == {"list_chats", "no_chats", "list_keywords", "no_keywords"}

\* C10: the list-chats and list-keywords buttons and /list_chats and
\* /list_keywords, handled while a session is pending, send their listing and
\* leave the sessions and the store as they were.
C10_ListingsBypassSession ==
    [][(/\ PendingMessage(last', _admin_sessions)
        /\ last'.req = 0
        /\ last'.arg \in {BTN_LIST_CHATS, BTN_LIST_WORDS, CMD_LIST_CHATS,
                          CMD_LIST_KEYWORDS}) =>
          /\ \E i \in 1..Len(calls') :
                calls'[i].m = "send_message" /\ calls'[i].what \in Listings
          /\ _admin_sessions' = _admin_sessions
          /\ _data' = _data]_vars

----------------------------------------------------------------------------
(* Claims about persistence.                                               *)

\* C11: between store operations the file holds the in-memory document: a store
\* constructed on the same path after a restart loads chats, titles, counters
\* and keywords identical to the ones in memory after the last operation.
C11_PersistenceRoundTrip ==
    /\ disk = _data
    /\ _load(disk) = _data

\* a store holding a titled chat with a counter and a keyword was reloaded
C11_Witness ==
    /\ last.op \in {"increment_warning", "add_keywords", "update_chat_title"}
    /\ _data.global_keywords # <<>>
    /\ \E c \in DOMAIN _data.moderated_chats :
          /\ _data.moderated_chats[c].title # <<>>
          /\ DOMAIN _data.moderated_chats[c].warnings # {}
    /\ _load(disk) = _data

----------------------------------------------------------------------------
(* Claims about escalation to a ban and about the order of the pipeline.   *)

\* cs holds a send_message to chat c of the notice what
Sent(cs, c, what) ==
    \E i \in 1..Len(cs) : cs[i].m = "send_message" /\ cs[i].chat = c /\ cs[i].what = what

\* every configured admin chat was sent the notice what
AdminsNotified(cs, what) == \A a \in admin_chat_ids : Sent(cs, a, what)

\* l is a message that reached the keyword check of a store d and matched
KeywordViolation(l, d) ==
    /\ Qualifying(l)
    /\ ~l.retb
    /\ l.arg # <<>>
    /\ Len(l.arg) <= MAX_MESSAGE_LENGTH
    /\ MatchedKeywords(get_keywords(d), l.arg) # <<>>

\* this step is a keyword violation whose deletion was accepted and whose
\* increment reached warning_limit
AtLimit ==
    /\ KeywordViolation(last', _data)
    /\ Succeeded(calls', "delete_message", last'.chat)
    /\ get_warning(_data, last'.chat, last'.user) + 1 >= warning_limit

\* C12: when a violation reaches the limit and the administrator query fails,
\* no ban is requested, the admin chats are told the ban was skipped, and the
\* counter keeps its incremented value.
C12_NoBanWhenAdminQueryFails ==
    [][(/\ AtLimit
        /\ Issued(calls', "get_chat_administrators", last'.chat)
        /\ ~Succeeded(calls', "get_chat_administrators", last'.chat)) =>
          /\ ~Issued(calls', "ban_chat_member", last'.chat)
          /\ AdminsNotified(calls', "ban_skipped")
          /\ get_warning(_data', last'.chat, last'.user)
                = get_warning(_data, last'.chat, last'.user) + 1]_vars

\* C13: when a violation reaches the limit and the administrator query lists
\* the user, no ban is requested, the admin chats are notified, and the counter
\* keeps the value the increment gave it.
C13_NoBanForAdministrator ==
    [][(/\ AtLimit
        /\ Succeeded(calls', "get_chat_administrators", last'.chat)
        /\ last'.user \in ChatAdministrators(last'.chat)) =>
          /\ ~Issued(calls', "ban_chat_member", last'.chat)
          /\ AdminsNotified(calls', "ban_skipped")
          /\ get_warning(_data', last'.chat, last'.user)
                = get_warning(_data, last'.chat, last'.user) + 1]_vars

\* an administrator of the chat reached the limit and was not banned
C13_Witness ==
    /\ last.path = "ban_skipped"
    /\ last.user \in ChatAdministrators(last.chat)
    /\ Succeeded(calls, "get_chat_administrators", last.chat)
    /\ ~Issued(calls, "ban_chat_member", last.chat)
    /\ get_warning(_data, last.chat, last.user) = warning_limit

\* C14: a requested ban that is accepted leaves the user without counter and
\* sends the group notice and the admin notice; one that is rejected leaves
\* the counter at its incremented value, sends no group ban notice and sends
\* the admin chats the failure.
C14_BanOutcome ==
    [][(AtLimit /\ Issued(calls', "ban_chat_member", last'.chat)) =>
          LET c == last'.chat
              u == last'.user
          IN IF Succeeded(calls', "ban_chat_member", c)
             THEN /\ NoCounter(_data', c, u)
                  /\ Sent(calls', c, "ban_notice")
                  /\ AdminsNotified(calls', "ban_admin_note")
             ELSE /\ get_warning(_data', c, u) = get_warning(_data, c, u) + 1
                  /\ ~Sent(calls', c, "ban_notice")
                  /\ AdminsNotified(calls', "ban_failed")
                  /\ ~AdminsNotified(calls', "ban_admin_note")]_vars

\* a ban was requested and rejected
C14_Witness ==
    /\ last.path = "ban_failed"
    /\ Issued(calls, "ban_chat_member", last.chat)
    /\ ~Succeeded(calls, "ban_chat_member", last.chat)
    /\ get_warning(_data, last.chat, last.user) = last.retn
    /\ last.retn >= warning_limit

\* C15: a keyword violation whose deletion is rejected changes no stored
\* document and makes no other call; and whenever the pipeline raises a
\* counter, the first call of the step is an accepted delete_message.
C15_NoIncrementWithoutDeletion ==
    [][/\ (/\ KeywordViolation(last', _data)
           /\ ~Succeeded(calls', "delete_message", last'.chat)) =>
             /\ _data' = _data
             /\ Len(calls') = 1
             /\ calls'[1].m = "delete_message"
       /\ \A c \in GroupChats, u \in UserIds :
             (last'.op = "moderation" /\ get_warning(_data', c, u) > get_warning(_data, c, u))
                => /\ calls' # <<>>
                   /\ calls'[1].m = "delete_message"
                   /\ calls'[1].chat = c
                   /\ calls'[1].ok]_vars

\* a keyword violation stopped at its rejected deletion
C15_Witness ==
    /\ last.path = "violation_delete_failed"
    /\ KeywordViolation(last, _data)
    /\ Len(calls) = 1
    /\ ~calls[1].ok

\* C16: a message reported exceeded changes no stored document and makes one
\* delete_message call, followed by the flood notice exactly when the deletion
\* was accepted, and nothing else, whatever its text.
C16_FloodShortCircuits ==
    [][(Qualifying(last') /\ last'.retb) =>
          /\ _data' = _data
          /\ calls' # <<>>
          /\ calls'[1].m = "delete_message"
          /\ calls'[1].chat = last'.chat
          /\ IF calls'[1].ok
             THEN /\ Len(calls') = 2
                  /\ calls'[2].m = "send_message"
                  /\ calls'[2].what = "flood_notice"
                  /\ calls'[2].chat = last'.chat
             ELSE Len(calls') = 1]_vars

\* an over-long text holding a keyword was handled as flood only
C16_Witness ==
    /\ Qualifying(last)
    /\ last.retb
    /\ Len(last.arg) > MAX_MESSAGE_LENGTH
    /\ MatchedKeywords(get_keywords(_data), last.arg) # <<>>
    /\ Len(calls) = 2

----------------------------------------------------------------------------
(* Claims about routing.                                                   *)

\* the message of the update that last was handled
LastMessage(l) == FirstMessage(l.upd)[1]

\* C17: the pipeline applied to a message whose chat is an admin chat, or is
\* not moderated, or is not a group or supergroup makes no call and leaves the
\* stored document, the file and the rate windows as they were.
C17_SilentNoOp ==
    [][(/\ last'.op = "moderation"
        /\ \/ last'.chat \in admin_chat_ids
           \/ last'.chat \notin DOMAIN _data.moderated_chats
           \/ LastMessage(last').type \notin {"group", "supergroup"}) =>
          /\ calls' = <<>>
          /\ _data' = _data
          /\ disk' = disk
          /\ _rate_buckets' = _rate_buckets]_vars

\* a keyword message in a moderated chat of another type was passed over while
\* counters and rate windows exist
C17_Witness ==
    /\ last.op = "moderation"
    /\ last.path = "skip_type"
    /\ last.chat \in DOMAIN _data.moderated_chats
    /\ MatchedKeywords(get_keywords(_data), last.arg) # <<>>
    /\ DOMAIN _data.moderated_chats[last.chat].warnings # {}
    /\ DOMAIN _rate_buckets # {}
    /\ calls = <<>>

\* the fields of an update in the order the router tries them
MessageFields == <<"message", "edited_message", "channel_post", "edited_channel_post">>

\* the first present message field of update u, 0 when none is
C18_First(u) ==
    IF \A i \in 1..4 : u[MessageFields[i]] = None THEN 0
    ELSE CHOOSE i \in 1..4 :
            /\ u[MessageFields[i]] # None
            /\ \A j \in 1..(i - 1) : u[MessageFields[j]] = None

\* the handler the routing rule names for update u
C18_Route(u) ==
    IF u.callback_query # None THEN "callback"
    ELSE IF C18_First(u) = 0 THEN "none"
    ELSE LET m == u[MessageFields[C18_First(u)]][1]
         IN IF \/ m.chat \in admin_chat_ids
               \/ m.user # None /\ m.user[1] \in admin_user_ids /\ m.type = "private"
            THEN "admin"
            ELSE "moderation"

\* the handler whose paths the step took
C18_HandledBy(l) ==
    IF l.path \in {"skip_admin_chat", "skip_unmoderated", "skip_type", "skip_no_sender",
                   "flood", "flood_delete_failed", "no_text", "long", "long_delete_failed",
                   "clean", "violation_delete_failed", "warned", "ban_skipped",
                   "ban_failed", "banned"}
    THEN "moderation"
    ELSE IF l.path = "" THEN "none"
    ELSE l.op

\* C18 as stated: every update is handled by exactly one of the callback
\* handler, the admin router and the moderation pipeline, the one the routing
\* rule names.
C18_ExactlyOneHandler ==
    [][last' # last =>
          /\ last'.op \in {"callback", "admin", "moderation"}
          /\ last'.op = C18_Route(last'.upd)]_vars

\* C18 amended: an update carrying a callback query or one of the four message
\* fields is handled by the one handler the routing rule names; an update
\* carrying none of them is handled by none and changes nothing.
C18_AtMostOneHandler ==
    [][last' # last =>
          /\ last'.op = C18_Route(last'.upd)
          /\ C18_HandledBy(last') = C18_Route(last'.upd)
          /\ C18_Route(last'.upd) = "none" =>
                /\ calls' = <<>>
                /\ _data' = _data
                /\ _admin_sessions' = _admin_sessions
                /\ _rate_buckets' = _rate_buckets]_vars

\* an edited message of the admin user in a private chat, beside a channel
\* post, went to the admin router
C18_Witness ==
    /\ last.op = "admin"
    /\ last.upd.message = None
    /\ last.upd.edited_message # None
    /\ last.upd.channel_post # None
    /\ last.chat \notin admin_chat_ids
    /\ last.user \in admin_user_ids
    /\ calls # <<>>

----------------------------------------------------------------------------
(* Claims about chat-selection messages and input errors.                  *)

\* the session of chat c waits for the chat selection with request id r
AwaitsSelection(ss, c, r) ==
    /\ c \in DOMAIN ss
    /\ ss[c].state \in {"AWAIT_ADD_CHAT_CHOOSE", "AWAIT_REMOVE_CHAT_CHOOSE"}
    /\ ss[c].data = Some(r)

\* C19: a chat-selection message with request id 101 leaves the shared chat
\* moderated and one with 102 leaves it unmoderated, whatever session the admin
\* chat has; one with another id leaves the stored document unchanged unless
\* the session waits for a selection with that id.
C19_ChatSelection ==
    [][(last'.op = "admin" /\ last'.req # 0) =>
          LET shared == LastMessage(last').chat_shared[1].chat_id
              before == DOMAIN _data.moderated_chats
              after == DOMAIN _data'.moderated_chats
          IN /\ _data'.global_keywords = _data.global_keywords
             /\ \A c \in before \cap after : _data'.moderated_chats[c].warnings
                                                = _data.moderated_chats[c].warnings
             /\ CASE last'.req = REQ_ADD_CHAT -> after = before \cup {shared}
                  [] last'.req = REQ_REMOVE_CHAT -> after = before \ {shared}
                  [] OTHER -> \/ AwaitsSelection(_admin_sessions, last'.chat, last'.req)
                              \/ _data' = _data]_vars

\* a moderated chat was removed by a selection with id 102 while the admin
\* chat had a keyword prompt pending
C19_Witness ==
    /\ last.op = "admin"
    /\ last.req = REQ_REMOVE_CHAT
    /\ last.path = "shared_remove"
    /\ last.chat \in DOMAIN _admin_sessions
    /\ LastMessage(last).chat_shared[1].chat_id \notin DOMAIN _data.moderated_chats
    /\ Sent(calls, last.chat, "chat_removed")

\* C20: an admin input rejected as malformed or empty, in a session step or in
\* a slash command, is answered with an error message to that admin chat,
\* changes no stored document and leaves the chat without session.
C20_ValidationErrorReported ==
    [][(/\ last'.op = "admin"
        /\ last'.path \in {"session", "command"}
        /\ last'.retb) =>
          /\ Sent(calls', last'.chat, "error")
          /\ ~last'.raised
          /\ _data' = _data
          /\ last'.chat \notin DOMAIN _admin_sessions']_vars

----------------------------------------------------------------------------
(* Claims about unknown commands, keyword removal and sessions.            *)

\* C21: an admin message with no pending session whose first token starts with
\* / and is no known command is answered with the unknown-command reply in
\* that chat, and leaves the stored document and the sessions unchanged.
C21_UnknownCommandReply ==
    [][(last'.op = "admin" /\ last'.path = "unknown_command") =>
          /\ Sent(calls', last'.chat, "unknown_command")
          /\ ~last'.raised
          /\ _data' = _data
          /\ _admin_sessions' = _admin_sessions]_vars

\* entry w of the list is one a given word names: equal under case-folding to
\* the word without its surrounding whitespace
NamedBy(w, words) ==
    \E j \in 1..Len(words) :
        \/ CaseFold(w) = CaseFold(words[j])
        \/ CaseFold(w) = CaseFold(Strip(words[j]))

\* C22: remove_keywords returns the number of entries it dropped; no entry that
\* stays is case-fold equal to a given word; the entries that stay are the
\* unnamed ones in their order; and when no entry is named it returns 0 and leaves the list and the
\* file as they were.
C22_RemoveKeywordsCount ==
    [][last'.op = "remove_keywords" =>
          LET old == _data.global_keywords
              new == _data'.global_keywords
          IN /\ last'.retn = Len(old) - Len(new)
             /\ \A i \in 1..Len(new) : ~NamedBy(new[i], last'.arg)
             /\ IsSubsequence(new, old)
             /\ \A i \in 1..Len(old) :
                   LET dropped == Cardinality({k \in 1..i : NamedBy(old[k], last'.arg)})
                   IN NamedBy(old[i], last'.arg) \/ old[i] = new[i - dropped]
             /\ (\A i \in 1..Len(old) : ~NamedBy(old[i], last'.arg)) =>
                   /\ last'.retn = 0
                   /\ new = old
                   /\ disk' = disk]_vars

\* one padded word removed two spellings and left the other keyword
C22_Witness ==
    /\ last.op = "remove_keywords"
    /\ last.arg = << <<" ">> \o spam \o <<" ">> >>
    /\ last.retn = 2
    /\ _data.global_keywords = <<Ads>>
    /\ disk = _data

\* the state a step that starts a session leaves pending, "" for other steps
StartedState(path) ==
    CASE path \in {"cb_add_word", "btn_add_word"} -> "AWAIT_ADD_KEYWORD"
      [] path \in {"cb_remove_word", "btn_remove_word"} -> "AWAIT_REMOVE_KEYWORD"
      [] path = "cb_warnings" -> "AWAIT_WARNINGS"
      [] path = "cb_reset" -> "AWAIT_RESET_WARNING"
      [] OTHER -> ""

\* C23: the sessions are one record per chat; a step that starts a session for
\* a chat leaves exactly the new state, with empty data, as that chat's
\* session whatever it held before; and a step for one chat, starting or
\* clearing its session, leaves every other chat's session as it was.
C23_OneSessionPerChat ==
    [][/\ \A c \in DOMAIN _admin_sessions' :
             /\ DOMAIN _admin_sessions'[c] = {"state", "data"}
             /\ _admin_sessions'[c].state # ""
       /\ last' # last =>
             /\ StartedState(last'.path) # "" =>
                   /\ last'.chat \in DOMAIN _admin_sessions'
                   /\ _admin_sessions'[last'.chat]
                         = [state |-> StartedState(last'.path), data |-> None]
             /\ \A c \in (DOMAIN _admin_sessions \cup DOMAIN _admin_sessions') \ {last'.chat} :
                   /\ c \in DOMAIN _admin_sessions
                   /\ c \in DOMAIN _admin_sessions'
                   /\ _admin_sessions'[c] = _admin_sessions[c]]_vars

\* a session was started in the private chat while the admin chat has another
\* one pending
C23_Witness ==
    /\ last.path = "cb_reset"
    /\ last.chat = 3
    /\ DOMAIN _admin_sessions = {3, 9}
    /\ _admin_sessions[3].state = "AWAIT_RESET_WARNING"
    /\ _admin_sessions[9].state = "AWAIT_ADD_KEYWORD"

----------------------------------------------------------------------------
(* Claims about the intake loop, the worker pool and shutdown.             *)

SetMax(S) == CHOOSE x \in S : \A y \in S : y <= x

\* C26: whenever the intake loop has moved past an update, the cursor is one
\* more than the highest update id it has seen so far, and no step lowers the
\* cursor, in whatever order the ids arrive.
C26_CursorPastHighestSeen ==
    [][(_offset' # _offset \/ hist'.seen # hist.seen) =>
          /\ CursorValue(_offset') = 1 + SetMax(hist'.seen)
          /\ CursorValue(_offset') >= CursorValue(_offset)]_vars

\* the values the cursor takes
Cursors == {None} \cup {Some(n) : n \in 2..(MaxUpdateId + 1)}

\* C27: a fetch that raises leaves the cursor as it was and takes the loop to
\* its sleep, never out of the loop; from there a fetch with the same cursor is
\* issued again unless stop was signalled; and the loop is left only with the
\* stop signal set.
C27_FailedPollRetried ==
    /\ [][(polling.pc = "fetch" /\ polling' # polling) =>
             /\ polling'.pc \notin {"exited", "crashed"}
             /\ hist'.failed >= 0 => (polling'.pc = "sleep" /\ _offset' = _offset)]_vars
    /\ \A o \in Cursors :
          (polling.pc = "sleep" /\ _offset = o)
             ~> ((polling.pc = "fetch" /\ polling.offset = o) \/ _stop_event)
    /\ [](polling.pc \in {"exited", "crashed"} => _stop_event)

\* after updates were handled, a fetch failed and the fetch with the same
\* cursor is in flight again
C27_Witness ==
    /\ polling.pc = "fetch"
    /\ hist.failed > 0
    /\ hist.failed = CursorValue(polling.offset)
    /\ polling.offset = _offset
    /\ ~_stop_event

\* the updates of the current batch the for loop has not submitted
NotYetSubmitted(p) ==
    IF p.pc \in {"dispatch", "crashed"} THEN SubSeq(p.updates, p.i, Len(p.updates)) ELSE <<>>

\* the handlers running now
Running(ws) == {wk \in DOMAIN ws : ws[wk].pc = "running"}

\* what the submission and pool clauses of C28 share: each accepted update is
\* once in the queue, with a worker, or cancelled; a submission moves the
\* cursor to one past its update and changes no worker; only the for loop of
\* the polling thread writes the cursor; the for loop can always take its next
\* step; and no more than worker_pool_size handlers run at once
C28_PoolDiscipline ==
    /\ [](/\ Len(_executor.queue) + hist.started + hist.cancelled = Len(hist.submitted)
          /\ Cardinality(Running(workers)) <= worker_pool_size
          /\ hist.started - hist.finished = Cardinality(Running(workers))
          /\ polling.pc = "dispatch" => ENABLED PollSubmit)
    /\ [][/\ hist'.submitted # hist.submitted =>
                /\ Len(hist'.submitted) = Len(hist.submitted) + 1
                /\ _offset' = Some(hist'.submitted[Len(hist'.submitted)] + 1)
                /\ workers' = workers
          /\ _offset' # _offset => (polling.pc = "dispatch" /\ polling' # polling)]_vars

C29_ShutdownOrdering ==
    /\ [](_executor.shutdown => _stop_event)
    /\ [](main = "stopped" =>
             /\ Running(workers) = {}
             /\ hist.started = hist.finished)
    /\ [][/\ main = "stopped" => hist'.started = hist.started
          /\ \A wk \in DOMAIN workers :
                (workers[wk].pc = "running" /\ workers'[wk].pc # "running") =>
                   /\ hist'.finished = hist.finished + 1
                   /\ last'.upd = UpdateOf(workers[wk].task[1])]_vars

\* stop() has returned after handlers ran to their end and queued updates
\* were cancelled, with the polling thread still in its fetch
C29_Witness ==
    /\ main = "stopped"
    /\ hist.finished >= 2
    /\ hist.started = hist.finished
    /\ hist.cancelled >= 1
    /\ polling.pc = "fetch"

\* C30: when a handler ends by raising, the polling thread and the pool are
\* as they were, its worker is idle again, and if the handler was an admin
\* flow a message (the failure notice) was sent to that admin chat.
C30_HandlerFailureContained ==
    [][(hist'.finished # hist.finished /\ last'.raised) =>
          /\ polling' = polling
          /\ _executor' = _executor
          /\ \A wk \in DOMAIN workers : workers'[wk] # workers[wk] => workers'[wk] = Idle
          /\ last'.op = "admin" =>
                \E i \in 1..Len(calls') : /\ calls'[i].m = "send_message"
                                          /\ calls'[i].chat = last'.chat]_vars

\* C24: a chat an admin removed stays out of the moderated chats until an admin
\* adds it again, whatever the other workers do in the meantime
C24_RemovedChatStaysAbsent ==
    \A c \in hist.removed : ~is_chat_moderated(_data, c)

\* C25: of the messages of one admin chat handled by different workers, at most
\* one is processed against a pending session
C25_SessionConsumedOnce == hist.consumed <= 1

\* the timestamps of a window in non-decreasing order
Ordered(dq) == \A i \in 1..Len(dq), j \in 1..Len(dq) : i < j => dq[i] <= dq[j]

\* C31: whatever the interleaving of the handlers, every rate window is an
\* ordered sequence of timestamps; after a check the key's window holds only
\* timestamps within RL_WINDOW_SECONDS of that check; and a check leaves the
\* windows of all other keys as they were.
C31_RateWindowsOrdered ==
    /\ [](\A k \in DOMAIN _rate_buckets : Ordered(_rate_buckets[k]))
    /\ [][\A wk \in DOMAIN workers :
             (workers[wk].pc = "timed" /\ workers'[wk].pc = "idle") =>
                LET key == <<workers[wk].task[1].chat, workers[wk].task[1].user[1]>>
                    t == workers[wk].loc[1]
                IN /\ \A i \in 1..Len(_rate_buckets'[key]) :
                         t - _rate_buckets'[key][i] <= RL_WINDOW_SECONDS
                   /\ \A k \in DOMAIN _rate_buckets :
                         k # key => _rate_buckets'[k] = _rate_buckets[k]]_vars

\* how many messages of a key the flood check let pass with a time in from..to
RECURSIVE AcceptedWithin(_, _, _, _, _)
AcceptedWithin(h, chat_id, user_id, from, to) ==
    IF from > to THEN 0
    ELSE Accepted(h, chat_id, user_id, from) + AcceptedWithin(h, chat_id, user_id, from + 1, to)

\* C37: whatever the interleaving of the handlers, no rate window holds more
\* than RL_MAX_MESSAGES timestamps, and of the messages of one key reported
\* not exceeded no more than RL_MAX_MESSAGES have their timestamps within one
\* stretch of RL_WINDOW_SECONDS.
C37_WindowNeverOverMaximum ==
    /\ \A k \in DOMAIN _rate_buckets : Len(_rate_buckets[k]) <= RL_MAX_MESSAGES
    /\ \A c \in GroupChats, u \in UserIds, from \in 0..MaxTime :
          AcceptedWithin(hist, c, u, from, from + RL_WINDOW_SECONDS) <= RL_MAX_MESSAGES

\* C32: keyword messages of one user in one chat handled by several workers at
\* once: as long as nothing resets the counter, the counts increment_warning
\* returns are 1, 2, 3, ... one per handler (so no two are the same), the
\* counter is the number of increments, and each handler is given the counter
\* as its own increment left it, whatever the other workers are doing.
C32_IncrementsNeverLost ==
    /\ [](/\ get_warning(_data, 1, 1) = Len(hist.counts)
          /\ \A i \in 1..Len(hist.counts) : hist.counts[i] = i)
    /\ [][\A wk \in DOMAIN workers :
             (workers[wk].pc = "deleted" /\ workers'[wk].pc = "counted") =>
                /\ workers'[wk].loc = Some(get_warning(_data, 1, 1) + 1)
                /\ get_warning(_data', 1, 1) = get_warning(_data, 1, 1) + 1]_vars

\* two handlers have incremented and neither has gone on yet
C32_Witness ==
    /\ \A wk \in DOMAIN workers : workers[wk].pc = "counted"
    /\ get_warning(_data, 1, 1) = worker_pool_size

\* the six states the session step has a branch for
AwaitStates ==
    {"AWAIT_ADD_CHAT", "AWAIT_REMOVE_CHAT", "AWAIT_ADD_KEYWORD", "AWAIT_REMOVE_KEYWORD",
     "AWAIT_WARNINGS", "AWAIT_RESET_WARNING"}

\* the admin chat's session is in the state and the update that put it there
\* sent or edited a message in that chat
Asked(state) ==
    /\ _get_session(World, 9) = state
    /\ \E i \in 1..Len(calls) : /\ calls[i].m \in {"send_message", "edit_message_text"}
                                /\ calls[i].chat = 9

\* C33: each of the six Await states is set, with a prompt, by some button,
\* callback or slash command: an admin who goes through all of them, round
\* after round, gets the admin chat's session into each state.
C33_EveryAwaitStateSet == \A state \in AwaitStates : <>Asked(state)

\* C34: a crash at any point of _persist leaves the file at the storage path
\* as it was or as the complete new snapshot (nothing but damage from outside
\* changes it to anything else), and a store started on a file that cannot be
\* read as a document starts with the empty default state, without failing.
C34_CrashSafeAndLoadFallback ==
    /\ [][last'.op # "damage" =>
             \/ files'.path = files.path
             \/ files'.path = CompleteFile(_data)]_vars
    /\ [][(last'.op = "load" /\ files.path.state \notin {"absent", "complete"}) =>
             /\ ~last'.raised
             /\ main' = "running"
             /\ _data' = DefaultData]_vars

\* a ban call is among the calls
BanIssued(cs) == \E i \in 1..Len(cs) : cs[i].m = "ban_chat_member"

\* C35: a handler issues a ban call only for a keyword violation (a qualifying
\* message that is not flagged as flood, has text of allowed length and matches
\* a keyword) whose increment_warning returned at least warning_limit, and the
\* call names the message's chat and sender; flood, over-long and textless
\* messages and admin updates issue none.
C35_BanOnlyFromEscalation ==
    [][BanIssued(calls') =>
          /\ last'.op = "moderation"
          /\ KeywordViolation(last', _data)
          /\ last'.retn = get_warning(_data, last'.chat, last'.user) + 1
          /\ last'.retn >= warning_limit
          /\ \A i \in 1..Len(calls') :
                calls'[i].m = "ban_chat_member" =>
                   /\ calls'[i].chat = last'.chat
                   /\ calls'[i].body = last'.user]_vars

\* a ban call was issued at the limit
C35_Witness ==
    /\ BanIssued(calls)
    /\ last.path \in {"banned", "ban_failed"}
    /\ last.retn >= warning_limit

\* the listing of moderated chats and the listing of keywords
ChatAndWordListings == {"list_chats", "list_keywords"}

\* C36: the moderated-chat listing and the keyword listing are sent only to an
\* admin chat or the private chat of an admin user, and a session exists only
\* for such a chat, callback queries included.
C36_AdminOutputConfined ==
    [][/\ \A i \in 1..Len(calls') :
            calls'[i].what \in ChatAndWordListings => calls'[i].chat \in AdminContextChats
       /\ DOMAIN _admin_sessions' \subseteq AdminContextChats]_vars

\* the paths of a message flagged as flood
FloodPaths == {"flood", "flood_delete_failed"}

\* C38: a qualifying message that is not flagged as flood leaves its sender's
\* window as the pruned window with the message's timestamp appended, whatever
\* path it takes afterwards (no text, over-long, keyword violation, clean), and
\* a flagged message leaves the pruned window without its timestamp.
C38_UnflaggedMessagesAreRecorded ==
    [][Qualifying(last') =>
          LET kept == PruneWindow(Bucket(_rate_buckets, last'.chat, last'.user), now')
              dq1 == Bucket(_rate_buckets', last'.chat, last'.user)
          IN /\ last'.retb <=> last'.path \in FloodPaths
             /\ IF last'.retb THEN dq1 = kept ELSE dq1 = Append(kept, now')]_vars

\* a message without text or caption filled its sender's window
C38_Witness ==
    /\ Qualifying(last)
    /\ last.path = "no_text"
    /\ LET dq == Bucket(_rate_buckets, last.chat, last.user)
       IN Len(dq) = RL_MAX_MESSAGES /\ dq[Len(dq)] = now

\* C39: the polling thread leaves _poll_updates only from the test at the head
\* of its loop, with the stop signal set, and never by an exception: a batch
\* that get_updates returns after stop() shut the pool down is taken through
\* the for loop without an error.
C39_IntakeEndsByStopSignal ==
    /\ [](polling.pc # "crashed")
    /\ [][(polling'.pc = "exited" /\ polling.pc # "exited") =>
             (polling.pc = "loop" /\ _stop_event)]_vars

=============================================================================
